---- MODULE Spec2Model ----
(***************************************************************************)
(* Snapshot delta of the DBMon dashboard (src/src/dbmon/dashboard.py), the *)
(* collection cycle that feeds it (src/src/dbmon/cli.py, collector.py,     *)
(* elastic.py), the rule evaluation of the cycle (alerts.py) and the       *)
(* explanations attached to alerts (explainer.py).                         *)
(*                                                                         *)
(* Specifications: Spec (cycles, then a /blocking request), SpecDelta      *)
(* (_calculate_delta), SpecExplain (explain_event), SpecRules              *)
(* (evaluate_rules), SpecNormalize (collect_mock, _build_event), SpecSlow  *)
(* (/slow-queries), SpecCycle (cmd_collect statement by statement),        *)
(* SpecCollect (collect_from_sql) and SpecKill (/kill-session).            *)
(*                                                                         *)
(* Python values are encoded so that values of different Python types stay *)
(* different and comparable:                                               *)
(*   int n      <<"int", <<n>>>>                                           *)
(*   str s      <<"str", codes>>   codes = the character codes of s        *)
(*   None       <<"none", <<>>>>                                           *)
(* A dict with string keys is a function from field names to values.  A    *)
(* stored document is a record [ts, event_type, body]: "@timestamp",       *)
(* "event_type" and the remaining entries of the JSON object, in which an  *)
(* entry f of the nested "payload" object is the entry "payload.f".        *)
(***************************************************************************)
EXTENDS Integers, Sequences, FiniteSets, TLC

VARIABLES
    metrics,         \* the metrics index: documents in the order they were indexed
    clock,           \* the wall clock read by _now_iso
    last_cycle,      \* what the most recently completed cycle persisted
    current_items,   \* argument of the last _calculate_delta call
    previous_items,  \* argument of the last _calculate_delta call
    key_field,       \* argument of the last _calculate_delta call
    delta,           \* result of the last _calculate_delta call
    response,        \* what the last /blocking request returned
    pc,              \* "ready" before a call, the position in it or after it else
    cycles,          \* the number of completed collection cycles
    alerts_index,    \* the alerts index: documents in the order they were indexed
    use_ai_analysis, \* settings.use_ai_analysis
    event_arg,       \* argument of the explain_event call
    ollama,          \* what the backend did with the request of the call
    ai_result,       \* what _call_ollama_ai returned
    requests,        \* the number of requests sent to the backend
    explanation_out, \* outcome of the explain_event call
    events_arg,      \* argument of the evaluate_rules call
    rules_arg,       \* argument of the evaluate_rules call
    alerts_out,      \* outcome of the evaluate_rules call
    sample_arg,      \* the records handed to collect_mock or _build_event
    sample_after,    \* the same list object after the call
    enriched,        \* the events the normalization returned
    sql_source,      \* what the SQL Server connection does in collect_from_sql
    collect_out,     \* outcome of the collect_from_sql call
    source_rows,     \* the rows the slow_queries query returns to /slow-queries
    limit_arg,       \* the limit parameter of the /slow-queries request
    slow_response,   \* what the /slow-queries request returned
    store_log,       \* the indexes bulk requests were sent to, in order
    request_arg,     \* the body of the /kill-session request
    sessions,        \* the session ids in sys.dm_exec_sessions
    own_spid,        \* the session id of the connection of kill_session
    server,          \* what the SQL Server connection does in kill_session
    issued,          \* the statements kill_session executed, in order
    kill_out         \* outcome of the kill_session call

deltaVars == <<current_items, previous_items, key_field, delta, response>>
explainVars == <<event_arg, ollama, ai_result, requests, explanation_out>>
ruleVars == <<events_arg, rules_arg, alerts_out>>
normalizeVars == <<sample_arg, sample_after, enriched>>
collectVars == <<sql_source, collect_out>>
slowVars == <<source_rows, limit_arg, slow_response>>
killVars == <<request_arg, sessions, own_spid, server, issued, kill_out>>
sideVars == <<normalizeVars, collectVars, slowVars, store_log, killVars>>

vars == <<metrics, clock, last_cycle, current_items, previous_items, key_field,
          delta, response, pc, cycles, alerts_index, use_ai_analysis, event_arg, ollama,
          ai_result, requests, explanation_out, events_arg, rules_arg, alerts_out, sideVars>>

----------------------------------------------------------------------------
(* Bounds of the model *)

MaxBatch == 2
MaxPrevious == 1
MaxCycles == 2
MaxRows == 2
MaxEvents == 2
MaxRuleCount == 2

----------------------------------------------------------------------------
(* Python values *)

None == <<"none", <<>>>>
PyInt(n) == <<"int", <<n>>>>
PyStr(codes) == <<"str", codes>>

IsInt(v) == v[1] = "int"
IsStr(v) == v[1] = "str"

\* The decimal digits of a natural number as character codes ('0' is 48).
RECURSIVE Digits(_)
Digits(n) == IF n < 10 THEN <<48 + n>> ELSE Digits(n \div 10) \o <<48 + (n % 10)>>

\* str(v): the text of an int, a str itself, "None" for None.
Str(v) ==
    CASE IsInt(v) -> PyStr(Digits(v[2][1]))
      [] IsStr(v) -> v
      [] OTHER -> PyStr(<<78, 111, 110, 101>>)

\* The truth value Python gives v in `if v`.
Truthy(v) ==
    CASE IsInt(v) -> v[2][1] # 0
      [] IsStr(v) -> Len(v[2]) > 0
      [] OTHER -> FALSE

\* d.get(f): the entry, None when the dict has none.
Get(d, f) == IF f \in DOMAIN d THEN d[f] ELSE None

EmptyDict == [f \in {} |-> None]

\* The elements of a sequence, and the orders in which a set can be iterated.
Range(s) == {s[i] : i \in DOMAIN s}
Orders(S) == {s \in [1..Cardinality(S) -> S] : Range(s) = S}

----------------------------------------------------------------------------
(* _calculate_delta *)

\* The fields whose values are compared, in the order the code visits them.
CompareFields == <<"elapsed_time_ms", "cpu_time_ms", "logical_reads", "duration_seconds",
                   "wait_time_ms", "transaction_begin_time", "status", "message">>

\* CurrentByKey keeping the first item of a key instead of the last.
CurrentByKeyFirst(items, kf) ==
    LET keyOf(i) == Str(Get(items[i], kf))
        first(k) == CHOOSE i \in DOMAIN items :
                       /\ keyOf(i) = k
                       /\ \A j \in DOMAIN items : keyOf(j) = k => i <= j
    IN  [k \in {keyOf(i) : i \in DOMAIN items} |-> items[first(k)]]

\* The dict comprehension {str(item.get(key_field)): item for item in current_items}:
\* a later item replaces an earlier one that has the same key.
CurrentByKey(items, kf) ==
    LET keyOf(i) == Str(Get(items[i], kf))
        last(k) == CHOOSE i \in DOMAIN items :
                      /\ keyOf(i) = k
                      /\ \A j \in DOMAIN items : keyOf(j) = k => j <= i
    IN  [k \in {keyOf(i) : i \in DOMAIN items} |-> items[last(k)]]

\* The field-change records of one current item against its previous entry.
RECURSIVE ChangedFieldsFrom(_, _, _)
ChangedFieldsFrom(n, current, previous) ==
    IF n > Len(CompareFields) THEN <<>>
    ELSE LET field == CompareFields[n]
             rest == ChangedFieldsFrom(n + 1, current, previous)
         IN  IF /\ field \in DOMAIN current
                /\ field \in DOMAIN previous
                /\ current[field] # previous[field]
             THEN <<[field |-> field, old |-> previous[field], new |-> current[field]]>>
                  \o rest
             ELSE rest

\* ChangedFields with old and new exchanged in the record.
ChangedFieldsSwapped(current, previous) ==
    LET changes == ChangedFieldsFrom(1, current, previous)
    IN  [n \in DOMAIN changes |->
            [field |-> changes[n].field, old |-> changes[n].new, new |-> changes[n].old]]

\* ChangedFields reading both sides with .get: an absent field compares as None.
RECURSIVE ChangedFieldsGetFrom(_, _, _)
ChangedFieldsGetFrom(n, current, previous) ==
    IF n > Len(CompareFields) THEN <<>>
    ELSE LET field == CompareFields[n]
             rest == ChangedFieldsGetFrom(n + 1, current, previous)
         IN  IF Get(current, field) # Get(previous, field)
             THEN <<[field |-> field, old |-> Get(previous, field),
                     new |-> Get(current, field)]>> \o rest
             ELSE rest
ChangedFieldsGet(current, previous) == ChangedFieldsGetFrom(1, current, previous)

ChangedFields(current, previous) == ChangedFieldsFrom(1, current, previous)

\* The loop over current_keys & previous_keys, visiting the keys in the order `keys`.
RECURSIVE ChangedEntries(_, _, _)
ChangedEntries(keys, current_by_key, previous) ==
    IF keys = <<>> THEN <<>>
    ELSE LET key == Head(keys)
             current == current_by_key[key]
             changed_fields == ChangedFields(current, previous[Str(key)])
             rest == ChangedEntries(Tail(keys), current_by_key, previous)
         IN  IF changed_fields # <<>>
             THEN <<[item |-> current, changed_fields |-> changed_fields]>> \o rest
             ELSE rest

NewKeys(current_by_key, previous) == DOMAIN current_by_key \ DOMAIN previous
CommonKeys(current_by_key, previous) == DOMAIN current_by_key \cap DOMAIN previous
ResolvedKeys(current_by_key, previous) == DOMAIN previous \ DOMAIN current_by_key

\* The orders in which the three key sets may be iterated (a Python set has no
\* order the program controls).
IterOrders(items, previous, kf) ==
    LET cbk == CurrentByKey(items, kf)
    IN  [new : Orders(NewKeys(cbk, previous)),
         common : Orders(CommonKeys(cbk, previous)),
         resolved : Orders(ResolvedKeys(cbk, previous))]

\* _calculate_delta(current_items, previous_items, key_field), the sets iterated
\* in the orders `iter`.  An entry of "changed" is the current item together
\* with its changed_fields list.
CalculateDelta(items, previous, kf, iter) ==
    LET current_by_key == CurrentByKey(items, kf)
    IN  [new |-> [i \in DOMAIN iter.new |-> current_by_key[iter.new[i]]],
         changed |-> ChangedEntries(iter.common, current_by_key, previous),
         resolved |-> [i \in DOMAIN iter.resolved |-> previous[iter.resolved[i]]],
         all |-> items]

----------------------------------------------------------------------------
(* Stored documents: collector.py, elastic.py, cli.py *)

\* The text of the literals the code uses.
TextBlocking == PyStr(<<98, 108, 111, 99, 107, 105, 110, 103>>)
TextSlowQueries == PyStr(<<115, 108, 111, 119, 95, 113, 117, 101, 114, 105, 101, 115>>)
HostName == PyStr(<<108, 111, 99, 97, 108, 104, 111, 115, 116>>)
SqlInstance == PyStr(<<117, 110, 107, 110, 111, 119, 110>>)

\* _now_iso(): the ISO text of the instant t.  ISO texts of one time zone order
\* as their instants do; the text of instant t is the one-code string <<t>>.
NowIso(t) == PyStr(<<t>>)
InstantOf(doc) == doc["@timestamp"][2][1]

\* The name under which entry f of the nested "payload" object is kept.
PayloadKey(f) ==
    CASE f = "blocked_session_id" -> "payload.blocked_session_id"
      [] f = "blocking_session_id" -> "payload.blocking_session_id"
      [] f = "wait_type" -> "payload.wait_type"
      [] f = "wait_time_ms" -> "payload.wait_time_ms"
      [] f = "wait_resource" -> "payload.wait_resource"
      [] f = "cpu_time_ms" -> "payload.cpu_time_ms"
      [] f = "elapsed_time_ms" -> "payload.elapsed_time_ms"
      [] f = "host_name" -> "payload.host_name"
      [] f = "program_name" -> "payload.program_name"
      [] f = "login_name" -> "payload.login_name"
      [] f = "database_name" -> "payload.database_name"
      [] f = "query_text" -> "payload.query_text"
      [] f = "session_id" -> "payload.session_id"
      [] f = "status" -> "payload.status"
      [] f = "transaction_id" -> "payload.transaction_id"
      [] f = "table_name" -> "payload.table_name"
      [] f = "avg_user_impact" -> "payload.avg_user_impact"
      [] f = "user_seeks" -> "payload.user_seeks"
      [] f = "user_scans" -> "payload.user_scans"
      [] f = "avg_elapsed_time_ms" -> "payload.avg_elapsed_time_ms"
      [] f = "execution_count" -> "payload.execution_count"
      [] f = "avg_logical_reads" -> "payload.avg_logical_reads"
      [] f = "cpu_percent" -> "payload.cpu_percent"
      [] f = "available_memory_mb" -> "payload.available_memory_mb"
      [] f = "total_memory_mb" -> "payload.total_memory_mb"
      [] f = "sql_memory_in_use_mb" -> "payload.sql_memory_in_use_mb"
      [] f = "free_space_kb" -> "payload.free_space_kb"
      [] f = "user_objects_kb" -> "payload.user_objects_kb"
      [] f = "internal_objects_kb" -> "payload.internal_objects_kb"

PayloadColumns == {"blocked_session_id", "blocking_session_id", "wait_type", "wait_time_ms",
                   "wait_resource", "cpu_time_ms", "elapsed_time_ms", "host_name",
                   "program_name", "login_name", "database_name", "query_text",
                   "session_id", "status", "transaction_id", "table_name",
                   "avg_user_impact", "user_seeks", "user_scans", "avg_elapsed_time_ms",
                   "execution_count", "avg_logical_reads", "cpu_percent",
                   "available_memory_mb", "total_memory_mb", "sql_memory_in_use_mb",
                   "free_space_kb", "user_objects_kb", "internal_objects_kb"}

\* {**a, **b}: the entries of a, replaced and extended by those of b.
Merge(a, b) == [k \in DOMAIN a \cup DOMAIN b |-> IF k \in DOMAIN b THEN b[k] ELSE a[k]]

\* A dict as the nested "payload" object of a document, and back.
Nested(payload) ==
    [k \in {PayloadKey(f) : f \in DOMAIN payload} |->
        payload[CHOOSE f \in DOMAIN payload : PayloadKey(f) = k]]
PayloadOf(doc) ==
    [f \in {g \in PayloadColumns : PayloadKey(g) \in DOMAIN doc} |-> doc[PayloadKey(f)]]

\* _build_event(event_type, payload) at instant t.
BuildEvent(event_type, payload, t) ==
    Merge([k \in {"@timestamp", "event_type", "host", "sql_instance"} |->
              CASE k = "@timestamp" -> NowIso(t)
                [] k = "event_type" -> event_type
                [] k = "host" -> HostName
                [] k = "sql_instance" -> SqlInstance],
          Nested(payload))

\* The events collect_from_sql builds from the rows of one query, in row order,
\* the clock read once per event: the i-th row at instant t + i.
RowEvents(event_type, rows, t) ==
    [i \in DOMAIN rows |-> BuildEvent(event_type, rows[i], t + i)]

\* collect_mock building each event anew from the fields of _build_event
\* instead of copying the record.
CollectMockKnownFields(sample_events, t) ==
    [i \in DOMAIN sample_events |->
        Merge([k \in {"@timestamp", "event_type", "host", "sql_instance"} |->
                  CASE k = "@timestamp" -> NowIso(t)
                    [] k = "event_type" -> Get(sample_events[i], "event_type")
                    [] k = "host" -> HostName
                    [] k = "sql_instance" -> SqlInstance],
              Nested(PayloadOf(sample_events[i])))]

\* The list handed to collect_mock as the call leaves it: line 76 copies each
\* record and lines 77-79 write to the copy only.
InputAfterCollectMock(sample_events) == sample_events

\* collect_mock(sample_events) at instant t.
CollectMock(sample_events, t) ==
    [i \in DOMAIN sample_events |->
        LET event_copy == Merge(sample_events[i],
                                [k \in {"@timestamp"} |-> NowIso(t)])
            defaults == [k \in {"host", "sql_instance"} \ DOMAIN event_copy |->
                            IF k = "host" THEN HostName ELSE SqlInstance]
        IN  Merge(event_copy, defaults)]

\* index_events(client, index, events): the index after the bulk request.
IndexEvents(index, events) == index \o events

----------------------------------------------------------------------------
(* _search and _get_latest_collection *)

SearchSize == 100
KeyPrefixLen == 100

Min(a, b) == IF a < b THEN a ELSE b

\* The hit lists _search may return for the term filter on event_type, sorted
\* by "@timestamp" descending (documents of one instant in any order), cut
\* to `size` hits.
SearchHits(index, event_type, size) ==
    LET matching == {i \in DOMAIN index : index[i]["event_type"] = event_type}
        sorted == {o \in Orders(matching) :
                      \A a, b \in DOMAIN o :
                          a < b => InstantOf(index[o[a]]) >= InstantOf(index[o[b]])}
    IN  {[n \in 1..Min(size, Len(o)) |-> index[o[n]]] : o \in sorted}

\* The key _get_latest_collection derives for one stored document.
SourceKey(source) ==
    IF "session_id" \in DOMAIN source THEN source["session_id"]
    ELSE IF "query_text" \in DOMAIN source
         THEN PyStr(SubSeq(source["query_text"][2], 1,
                           Min(KeyPrefixLen, Len(source["query_text"][2]))))
    ELSE IF "deadlock_id" \in DOMAIN source THEN source["deadlock_id"]
    ELSE None

\* The loop of _get_latest_collection over the hits: the first hit of a key
\* is kept.
RECURSIVE ItemsByKey(_, _)
ItemsByKey(hits, items_by_key) ==
    IF hits = <<>> THEN items_by_key
    ELSE LET source == Head(hits)
             key == SourceKey(source)
         IN  IF Truthy(key) /\ key \notin DOMAIN items_by_key
             THEN ItemsByKey(Tail(hits),
                             [k \in DOMAIN items_by_key \cup {key} |->
                                 IF k = key THEN source ELSE items_by_key[k]])
             ELSE ItemsByKey(Tail(hits), items_by_key)

GetLatestCollection(hits) == ItemsByKey(hits, EmptyDict)

----------------------------------------------------------------------------
(* Inputs *)

\* A dict from <<name, value>> pairs; a pair whose value is Absent is left out.
Absent == <<"absent", <<>>>>
Dict(pairs) ==
    [k \in {p[1] : p \in {q \in pairs : q[2] # Absent}} |->
        (CHOOSE p \in pairs : p[1] = k)[2]]

\* The sequences of at most n elements of S.
SeqsUpTo(S, n) == UNION {[1..m -> S] : m \in 0..n}

\* Current items handed to _calculate_delta: the key field absent, null or an
\* int, the compared field wait_time_ms absent or an int.
Items ==
    {Dict({<<"blocking_session_id", b>>, <<"wait_time_ms", w>>}) :
        b \in {Absent, PyInt(10), PyInt(11)},
        w \in {Absent, PyInt(200), PyInt(500), PyInt(9000)}}
    \cup {Dict({<<"blocking_session_id", None>>, <<"wait_time_ms", PyInt(500)>>})}

\* Previous maps handed to _calculate_delta: keys as _get_latest_collection
\* can produce them (the text or the int of a session id, the text "None").
PreviousKeys == {PyStr(<<49, 48>>), PyStr(<<49, 49>>), PyInt(10), PyStr(<<78, 111, 110, 101>>)}
PreviousValues ==
    {Dict({<<"blocking_session_id", PyInt(10)>>, <<"wait_time_ms", w>>}) :
        w \in {Absent, None, PyInt(500), PyInt(9000)}}
PreviousMaps ==
    UNION {[D -> PreviousValues] :
              D \in {E \in SUBSET PreviousKeys : Cardinality(E) <= MaxPrevious}}

\* A batch stored under its own keys, as _calculate_delta derives them (a
\* later item of a key replacing an earlier one).
KeysOf(items, kf) ==
    LET keyOf(i) == Str(Get(items[i], kf))
    IN  [k \in {keyOf(i) : i \in DOMAIN items} |->
            items[CHOOSE i \in DOMAIN items :
                     keyOf(i) = k /\ \A j \in DOMAIN items : keyOf(j) = k => j <= i]]

\* Rows of SQL_QUERIES["blocking"]: every column of the query, the session
\* ids and the wait time varying.
BlockingRow(blocked, blocking, wait) ==
    Dict({<<"blocked_session_id", PyInt(blocked)>>,
          <<"blocking_session_id", PyInt(blocking)>>,
          <<"wait_type", PyStr(<<76, 67, 75, 95, 77, 95, 88>>)>>,
          <<"wait_time_ms", PyInt(wait)>>,
          <<"wait_resource", None>>,
          <<"cpu_time_ms", PyInt(0)>>,
          <<"elapsed_time_ms", PyInt(wait)>>,
          <<"host_name", HostName>>,
          <<"program_name", None>>,
          <<"login_name", None>>,
          <<"database_name", PyStr(<<83, 97, 108, 101, 115>>)>>,
          <<"query_text", PyStr(<<83, 69, 76, 69, 67, 84, 32, 49>>)>>})
BlockingRows ==
    {BlockingRow(51, 10, 500), BlockingRow(51, 10, 9000), BlockingRow(52, 10, 500)}

\* Rows of another query of SQL_QUERIES (slow_queries).
SlowQueryRows ==
    {Dict({<<"session_id", PyInt(60)>>, <<"status", None>>,
           <<"elapsed_time_ms", PyInt(9000)>>})}

\* Records of the sample file read by read_jsonl: the nested shape that
\* generate_event writes, and flat records that carry an identity field at
\* the top level, where _get_latest_collection looks for it.  A query_text is
\* a text, a session_id or deadlock_id an int or a text.
LongText == [i \in 1..(KeyPrefixLen + 1) |-> 97]
SampleRecords ==
    {Dict({<<"event_type", TextBlocking>>,
           <<"payload.blocking_session_id", PyInt(10)>>,
           <<"payload.wait_time_ms", PyInt(500)>>}),
     Dict({<<"event_type", TextBlocking>>, <<"session_id", PyInt(5)>>,
           <<"query_text", PyStr(<<83, 69, 76, 69, 67, 84, 32, 49>>)>>,
           <<"wait_time_ms", PyInt(500)>>}),
     Dict({<<"event_type", TextBlocking>>, <<"session_id", PyStr(<<49, 48>>)>>,
           <<"wait_time_ms", PyInt(500)>>}),
     Dict({<<"event_type", TextBlocking>>, <<"query_text", PyStr(LongText)>>}),
     Dict({<<"event_type", TextBlocking>>, <<"deadlock_id", PyInt(7)>>}),
     Dict({<<"event_type", TextSlowQueries>>, <<"session_id", PyInt(0)>>,
           <<"host", PyStr(<<97>>)>>})}

----------------------------------------------------------------------------
(* Python operations used by explainer.py and alerts.py.  An operation that  *)
(* raises for its operands is paired with a predicate telling when it        *)
(* succeeds.                                                                 *)

\* d.get(f, default): the entry, the default only when the dict has no entry
\* (an entry that is None is returned as None).
GetOr(d, f, default) == IF f \in DOMAIN d THEN d[f] ELSE default

\* v or "": v when it is truthy, else the empty text.
OrEmptyText(v) == IF Truthy(v) THEN v ELSE PyStr(<<>>)

\* Format specs ending in f (":.0f", ":.1f", ":,.0f") accept a number only:
\* None raises TypeError, a str ValueError.
FormatsAsFloat(v) == IsInt(v)

\* a + b, a / b, a > b between Python values: numbers with numbers, and for +
\* and > also texts with texts; everything else raises TypeError.
CanAdd(a, b) == (IsInt(a) /\ IsInt(b)) \/ (IsStr(a) /\ IsStr(b))
Add(a, b) == IF IsInt(a) THEN PyInt(a[2][1] + b[2][1]) ELSE PyStr(a[2] \o b[2])
CanDivide(a) == IsInt(a)
CanOrder(a, b) == (IsInt(a) /\ IsInt(b)) \/ (IsStr(a) /\ IsStr(b))

\* Lexicographic order of two code sequences.
RECURSIVE LexLess(_, _)
LexLess(s, t) ==
    IF t = <<>> THEN FALSE
    ELSE IF s = <<>> THEN TRUE
    ELSE IF Head(s) # Head(t) THEN Head(s) < Head(t)
    ELSE LexLess(Tail(s), Tail(t))

\* a < b for operands CanOrder accepts.
Less(a, b) == IF IsInt(a) THEN a[2][1] < b[2][1] ELSE LexLess(a[2], b[2])

\* The digits of n with a comma between groups of three (the "," format option).
RECURSIVE Grouped(_)
Grouped(n) ==
    IF n < 1000 THEN Digits(n)
    ELSE Grouped(n \div 1000)
         \o <<44, 48 + ((n \div 100) % 10), 48 + ((n \div 10) % 10), 48 + (n % 10)>>

\* f"{n / d:.1f}" for naturals n and d: the quotient rounded to one decimal
\* (inputs are chosen away from ties).
Fixed1(n, d) ==
    LET tenths == (20 * n + d) \div (2 * d)
    IN  PyStr(Digits(tenths \div 10) \o <<46, 48 + (tenths % 10)>>)

\* f"{n:.0f}" and f"{n:,.0f}" for a natural n.
Fixed0(n) == PyStr(Digits(n))
Grouped0(n) == PyStr(Grouped(n))

\* text[:n]
Prefix(text, n) == PyStr(SubSeq(text[2], 1, Min(n, Len(text[2]))))

----------------------------------------------------------------------------
(* Explanations: explainer.py *)

\* A JSON value as json.loads returns it and as _get_fallback_explanation
\* builds it.  A text is a template (the literal part of an f-string, named)
\* and the texts interpolated into it; a dict is a function from field names
\* to JSON values.
TextOf(template, args) == [template |-> template, args |-> args]
NoText == TextOf("", <<>>)
JStr(text) == [kind |-> "str", fields |-> EmptyDict, items |-> <<>>, text |-> text]
JInt(n) == [kind |-> "int", fields |-> EmptyDict, items |-> <<>>,
            text |-> TextOf("", <<PyInt(n)>>)]
JList(items) == [kind |-> "list", fields |-> EmptyDict, items |-> items, text |-> NoText]
JDict(fields) == [kind |-> "dict", fields |-> fields, items |-> <<>>, text |-> NoText]
JNull == [kind |-> "null", fields |-> EmptyDict, items |-> <<>>, text |-> NoText]

\* The truth value Python gives a JSON value in `if ai_result`.
JTruthy(v) ==
    CASE v.kind = "dict" -> DOMAIN v.fields # {}
      [] v.kind = "list" -> v.items # <<>>
      [] v.kind = "str" -> v.text # NoText
      [] v.kind = "int" -> v.text.args[1] # PyInt(0)
      [] OTHER -> FALSE

\* The outcome of a call: a value returned, or an exception raised.
Returned(v) == [raised |-> FALSE, value |-> v]
Raised == [raised |-> TRUE, value |-> JNull]

\* The four entries of an explanation dict.
Explanation(summary, details, analysis, recommendations) ==
    JDict([f \in {"summary", "details", "analysis", "recommendations"} |->
              CASE f = "summary" -> JStr(summary)
                [] f = "details" -> JStr(details)
                [] f = "analysis" -> JStr(analysis)
                [] f = "recommendations" ->
                      JList([i \in DOMAIN recommendations |-> JStr(recommendations[i])])])

\* A list of n literal recommendation texts of one template.
Recommendations(template, n) == [i \in 1..n |-> TextOf(template, <<PyInt(i)>>)]

\* The text of the event types the code names.
TextDeadlocks == PyStr(<<100, 101, 97, 100, 108, 111, 99, 107, 115>>)
TextOpenTransactions ==
    PyStr(<<111, 112, 101, 110, 95, 116, 114, 97, 110, 115, 97, 99, 116, 105, 111, 110, 115>>)
TextMissingIndexes ==
    PyStr(<<109, 105, 115, 115, 105, 110, 103, 95, 105, 110, 100, 101, 120, 101, 115>>)
TextCpuMemory == PyStr(<<99, 112, 117, 95, 109, 101, 109, 111, 114, 121>>)
TextTempdbHealth == PyStr(<<116, 101, 109, 112, 100, 98, 95, 104, 101, 97, 108, 116, 104>>)
TextUnknown == PyStr(<<117, 110, 107, 110, 111, 119, 110>>)

TimingThreshold == 1000
QueryTextShown == 200
KbPerMb == 1024

\* The branches of _get_fallback_explanation, each for the payload of an event
\* of its type.
FallbackBlocking(payload) ==
    LET blocked == Get(payload, "blocked_session_id")
        blocking == Get(payload, "blocking_session_id")
        wait_ms == Get(payload, "wait_time_ms")
    IN  Returned(Explanation(TextOf("blocking.summary", <<Str(blocked)>>),
                             TextOf("blocking.details", <<Str(wait_ms), Str(blocking)>>),
                             TextOf("blocking.analysis", <<>>),
                             Recommendations("blocking.recommendations", 4)))

FallbackDeadlocks(payload) ==
    Returned(Explanation(TextOf("deadlocks.summary", <<>>),
                         TextOf("deadlocks.details", <<>>),
                         TextOf("deadlocks.analysis", <<>>),
                         Recommendations("deadlocks.recommendations", 4)))

FallbackOpenTransactions(payload) ==
    LET txn == Get(payload, "transaction_id")
        session == GetOr(payload, "session_id", TextUnknown)
    IN  Returned(Explanation(TextOf("open_transactions.summary", <<Str(session)>>),
                             TextOf("open_transactions.details", <<Str(txn)>>),
                             TextOf("open_transactions.analysis", <<>>),
                             Recommendations("open_transactions.recommendations", 4)))

FallbackMissingIndexes(payload) ==
    LET table == Get(payload, "table_name")
        impact == Get(payload, "avg_user_impact")
        seeks == GetOr(payload, "user_seeks", PyInt(0))
        scans == GetOr(payload, "user_scans", PyInt(0))
    IN  IF ~CanAdd(seeks, scans) THEN Raised
        ELSE Returned(Explanation(TextOf("missing_indexes.summary", <<Str(table)>>),
                                  TextOf("missing_indexes.details",
                                         <<Str(impact), Str(Add(seeks, scans))>>),
                                  TextOf("missing_indexes.analysis", <<>>),
                                  Recommendations("missing_indexes.recommendations", 4)))

FallbackSlowQueries(payload) ==
    LET avg_ms == GetOr(payload, "avg_elapsed_time_ms", PyInt(0))
        exec_count == GetOr(payload, "execution_count", PyInt(0))
        text == OrEmptyText(Get(payload, "query_text"))
        avg_reads == GetOr(payload, "avg_logical_reads", PyInt(0))
    IN  IF ~IsStr(text) \/ ~CanOrder(avg_ms, PyInt(TimingThreshold))
           \/ ~FormatsAsFloat(avg_ms) \/ ~FormatsAsFloat(avg_reads)
        THEN Raised
        ELSE LET query_text == Prefix(text, QueryTextShown)
                 timing ==
                    IF Less(PyInt(TimingThreshold), avg_ms)
                    THEN Add(Fixed1(avg_ms[2][1], 1000),
                             PyStr(<<32, 115, 101, 99, 111, 110, 100, 115>>))
                    ELSE Add(Fixed0(avg_ms[2][1]),
                             PyStr(<<32, 109, 105, 108, 108, 105, 115, 101, 99, 111, 110,
                                     100, 115>>))
             IN  Returned(Explanation(TextOf("slow_queries.summary", <<timing>>),
                                      TextOf("slow_queries.details",
                                             <<Str(exec_count), Grouped0(avg_reads[2][1]),
                                               query_text>>),
                                      TextOf("slow_queries.analysis", <<>>),
                                      Recommendations("slow_queries.recommendations", 5)))

FallbackCpuMemory(payload) ==
    LET cpu == Get(payload, "cpu_percent")
        avail == Get(payload, "available_memory_mb")
        total == GetOr(payload, "total_memory_mb", PyInt(0))
        sql_in_use == GetOr(payload, "sql_memory_in_use_mb", PyInt(0))
    IN  IF ~FormatsAsFloat(avail) \/ ~FormatsAsFloat(total) \/ ~FormatsAsFloat(sql_in_use)
        THEN Raised
        ELSE Returned(Explanation(TextOf("cpu_memory.summary", <<>>),
                                  TextOf("cpu_memory.details",
                                         <<Str(cpu), Grouped0(avail[2][1]),
                                           Grouped0(total[2][1]), Grouped0(sql_in_use[2][1])>>),
                                  TextOf("cpu_memory.analysis", <<>>),
                                  Recommendations("cpu_memory.recommendations", 4)))

FallbackTempdbHealth(payload) ==
    LET free_kb == GetOr(payload, "free_space_kb", PyInt(0))
        user_kb == GetOr(payload, "user_objects_kb", PyInt(0))
        internal_kb == GetOr(payload, "internal_objects_kb", PyInt(0))
    IN  IF ~CanDivide(free_kb) \/ ~CanDivide(user_kb) \/ ~CanDivide(internal_kb)
        THEN Raised
        ELSE Returned(Explanation(TextOf("tempdb_health.summary", <<>>),
                                  TextOf("tempdb_health.details",
                                         <<Fixed1(free_kb[2][1], KbPerMb),
                                           Fixed1(user_kb[2][1], KbPerMb),
                                           Fixed1(internal_kb[2][1], KbPerMb)>>),
                                  TextOf("tempdb_health.analysis", <<>>),
                                  Recommendations("tempdb_health.recommendations", 4)))

FallbackGeneric ==
    Returned(Explanation(TextOf("generic.summary", <<>>),
                         TextOf("generic.details", <<>>),
                         TextOf("generic.analysis", <<>>),
                         Recommendations("generic.recommendations", 1)))

\* _get_fallback_explanation(event)
GetFallbackExplanation(event) ==
    LET event_type == GetOr(event, "event_type", TextUnknown)
        payload == PayloadOf(event)
    IN  CASE event_type = TextBlocking -> FallbackBlocking(payload)
          [] event_type = TextDeadlocks -> FallbackDeadlocks(payload)
          [] event_type = TextOpenTransactions -> FallbackOpenTransactions(payload)
          [] event_type = TextMissingIndexes -> FallbackMissingIndexes(payload)
          [] event_type = TextSlowQueries -> FallbackSlowQueries(payload)
          [] event_type = TextCpuMemory -> FallbackCpuMemory(payload)
          [] event_type = TextTempdbHealth -> FallbackTempdbHealth(payload)
          [] OTHER -> FallbackGeneric

\* The text of an answer as a sequence of pieces: the markers ```json and
\* ```, the serialisation of one JSON value, or text that is no JSON.
FenceJson == [piece |-> "fence_json", content |-> JNull]
Fence == [piece |-> "fence", content |-> JNull]
Prose == [piece |-> "prose", content |-> JNull]
Json(v) == [piece |-> "json", content |-> v]

\* text.split(marker)[1] and text.split(marker)[0] for a marker the text
\* holds: what follows its first occurrence (up to the next one), and what
\* precedes it.  The marker ```json begins with ```, so either piece ends a
\* part split at ```.
IsFence(p) == p = Fence \/ p = FenceJson
FirstAt(text, isMarker(_)) ==
    CHOOSE i \in DOMAIN text : isMarker(text[i]) /\ \A j \in 1..(i - 1) : ~isMarker(text[j])
BeforeFence(text) ==
    IF \E i \in DOMAIN text : IsFence(text[i])
    THEN SubSeq(text, 1, FirstAt(text, IsFence) - 1)
    ELSE text
IsFenceJson(p) == p = FenceJson
AfterFenceJson(text) == SubSeq(text, FirstAt(text, IsFenceJson) + 1, Len(text))
AfterFence(text) == SubSeq(text, FirstAt(text, IsFence) + 1, Len(text))

\* Lines 194-198: the JSON inside a markdown code block, else the whole text.
ExtractJson(ai_text) ==
    IF \E i \in DOMAIN ai_text : ai_text[i] = FenceJson
    THEN BeforeFence(AfterFenceJson(ai_text))
    ELSE IF \E i \in DOMAIN ai_text : ai_text[i] = Fence
         THEN BeforeFence(AfterFence(ai_text))
    ELSE ai_text

\* json.loads(text): the value when the text is the serialisation of exactly
\* one JSON value, else JSONDecodeError.
JsonLoads(text) ==
    IF Len(text) = 1 /\ text[1].piece = "json" THEN Returned(text[1].content) ELSE Raised

\* What the backend does with one request: the connection fails, the request
\* times out, or a response arrives with a status code and a body; the body
\* is `text` in the "response" entry of a JSON object, or no JSON at all.
HttpOk == 200
ConnectionError == [kind |-> "connection_error", status |-> 0, text |-> <<>>]
Timeout == [kind |-> "timeout", status |-> 0, text |-> <<>>]
BodyNotJson(status) == [kind |-> "body_not_json", status |-> status, text |-> <<>>]
Answer(status, text) == [kind |-> "answer", status |-> status, text |-> text]

\* _call_ollama_ai(event) when the backend does `outcome`: the parsed answer,
\* or None (JNull).  Every exception is caught (lines 204-212).
CallOllamaAi(event, outcome) ==
    IF outcome.kind # "answer" \/ outcome.status # HttpOk THEN JNull
    ELSE LET ai_explanation == JsonLoads(ExtractJson(outcome.text))
         IN  IF ai_explanation.raised THEN JNull ELSE ai_explanation.value

\* explain_event(event) with the setting use_ai_analysis and the backend
\* doing `outcome` when it is asked.
ExplainEvent(event, use_ai, outcome) ==
    LET primary == IF use_ai THEN CallOllamaAi(event, outcome) ELSE JNull
    IN  IF use_ai /\ JTruthy(primary) THEN Returned(primary)
        ELSE GetFallbackExplanation(event)

----------------------------------------------------------------------------
(* Rules and alerts: alerts.py *)

\* A rule is a record of the entries evaluate_rules reads; `field` and `op`
\* are names, the other entries Python values, Absent for an entry the rule
\* does not have.
Rule(id, event_type, field, op, value, severity, message, recommendations) ==
    [id |-> id, event_type |-> event_type, field |-> field, op |-> op, value |-> value,
     severity |-> severity, message |-> message, recommendations |-> recommendations]

\* A Python list of values.
PyList(items) == <<"list", items>>

TextMedium == PyStr(<<109, 101, 100, 105, 117, 109>>)

\* rule.get(f) and rule.get(f, default)
RuleGet(rule, f, default) == IF rule[f] = Absent THEN default ELSE rule[f]

\* _compare(value, op, threshold): the truth value returned, or the TypeError
\* Python raises when an ordering operator meets operands it cannot order.
Compared(result) == [raised |-> FALSE, result |-> result]
CompareRaised == [raised |-> TRUE, result |-> FALSE]
\* value op threshold for an ordering operator and operands it can order.
Ordering(value, op, threshold) ==
    CASE op = ">" -> Less(threshold, value)
      [] op = ">=" -> ~Less(value, threshold)
      [] op = "<" -> Less(value, threshold)
      [] op = "<=" -> ~Less(threshold, value)

\* Compare without the test for None of line 22.
CompareNoneAsValue(value, op, threshold) ==
    IF op \in {">", ">=", "<", "<="}
    THEN IF CanOrder(value, threshold)
         THEN Compared(Ordering(value, op, threshold))
         ELSE CompareRaised
    ELSE IF op = "==" THEN Compared(value = threshold)
    ELSE IF op = "!=" THEN Compared(value # threshold)
    ELSE Compared(FALSE)

Compare(value, op, threshold) ==
    IF value = None THEN Compared(FALSE)
    ELSE IF op \in {">", ">=", "<", "<="}
         THEN IF CanOrder(value, threshold)
              THEN Compared(Ordering(value, op, threshold))
              ELSE CompareRaised
    ELSE IF op = "==" THEN Compared(value = threshold)
    ELSE IF op = "!=" THEN Compared(value # threshold)
    ELSE Compared(FALSE)

\* Pairs with the rules outermost and the events innermost.
PairsRuleFirst(events, rules) ==
    [n \in 1..(Len(events) * Len(rules)) |->
        <<((n - 1) % Len(events)) + 1, ((n - 1) \div Len(events)) + 1>>]

\* The alert evaluate_rules appends for an event and a rule (lines 51-61),
\* built at instant t.
Alert(event, rule, explanation, t) ==
    [timestamp |-> NowIso(t),
     alert_id |-> RuleGet(rule, "id", None),
     severity |-> RuleGet(rule, "severity", TextMedium),
     message |-> RuleGet(rule, "message", None),
     event |-> event,
     explanation |-> explanation,
     recommendations |-> RuleGet(rule, "recommendations", PyList(<<>>))]

\* The result of evaluate_rules: the alerts returned, or an exception raised
\* (the alerts built until then are lost with the call).
AlertsReturned(alerts) == [raised |-> FALSE, alerts |-> alerts]
AlertsRaised == [raised |-> TRUE, alerts |-> <<>>]

\* The (event, rule) index pairs in the order the nested loops visit them:
\* events outermost, rules innermost.
Pairs(events, rules) ==
    [n \in 1..(Len(events) * Len(rules)) |->
        <<((n - 1) \div Len(rules)) + 1, ((n - 1) % Len(rules)) + 1>>]

\* The loops of evaluate_rules from the n-th visited pair on, `alerts` being
\* the list built so far.  outcomes[n] is what the backend does if the n-th
\* pair asks it for an explanation; the clock is read once per alert.
RECURSIVE EvaluateFrom(_, _, _, _, _, _, _)
EvaluateFrom(n, events, rules, use_ai, outcomes, t, alerts) ==
    IF n > Len(events) * Len(rules) THEN AlertsReturned(alerts)
    ELSE LET event == events[Pairs(events, rules)[n][1]]
             rule == rules[Pairs(events, rules)[n][2]]
             payload == PayloadOf(event)
         IN  IF Get(event, "event_type") # RuleGet(rule, "event_type", None)
             THEN EvaluateFrom(n + 1, events, rules, use_ai, outcomes, t, alerts)
             ELSE LET compared == Compare(Get(payload, rule.field), rule.op,
                                          RuleGet(rule, "value", None))
                  IN  IF compared.raised THEN AlertsRaised
                      ELSE IF ~compared.result
                      THEN EvaluateFrom(n + 1, events, rules, use_ai, outcomes, t, alerts)
                      ELSE LET explanation == ExplainEvent(event, use_ai, outcomes[n])
                           IN  IF explanation.raised THEN AlertsRaised
                               ELSE EvaluateFrom(n + 1, events, rules, use_ai, outcomes, t,
                                        Append(alerts,
                                               Alert(event, rule, explanation.value,
                                                     t + Len(alerts) + 1)))

\* evaluate_rules(events, rules) starting at instant t.
EvaluateRules(events, rules, use_ai, outcomes, t) ==
    EvaluateFrom(1, events, rules, use_ai, outcomes, t, <<>>)

----------------------------------------------------------------------------
(* Inputs of explain_event and evaluate_rules *)

\* An event of a type with payload entries from <<name, value>> pairs.
EventOf(event_type, pairs) ==
    Dict({<<"event_type", event_type>>} \cup {<<PayloadKey(p[1]), p[2]>> : p \in pairs})

TextOther == PyStr(<<111, 116, 104, 101, 114>>)
TextSelect == PyStr(<<83, 69, 76, 69, 67, 84, 32, 49>>)
TextOrders == PyStr(<<79, 114, 100, 101, 114, 115>>)

\* Events of the seven types of EVENT_TYPES, of another type and of no type,
\* the payload entries the explanations read present, null or absent.
ExplainEvents ==
    {EventOf(TextBlocking, {<<"blocked_session_id", a>>, <<"blocking_session_id", b>>,
                            <<"wait_time_ms", c>>}) :
        a \in {Absent, None, PyInt(123)}, b \in {Absent, PyInt(456)},
        c \in {Absent, None, PyInt(45000)}}
    \cup {EventOf(TextDeadlocks, {})}
    \cup {EventOf(TextOpenTransactions, {<<"transaction_id", a>>, <<"session_id", b>>}) :
            a \in {Absent, None, PyInt(7)}, b \in {Absent, None, PyInt(60)}}
    \cup {EventOf(TextMissingIndexes, {<<"table_name", a>>, <<"avg_user_impact", PyInt(90)>>,
                                       <<"user_seeks", b>>, <<"user_scans", c>>}) :
            a \in {Absent, TextOrders}, b \in {Absent, None, PyInt(3)},
            c \in {Absent, None, PyInt(4)}}
    \cup {EventOf(TextSlowQueries, {<<"avg_elapsed_time_ms", a>>,
                                    <<"execution_count", PyInt(50)>>,
                                    <<"query_text", b>>, <<"avg_logical_reads", c>>}) :
            a \in {Absent, None, PyInt(999), PyInt(1000), PyInt(4000), PyInt(15000)},
            b \in {Absent, None, TextSelect},
            c \in {Absent, None, PyInt(25000)}}
    \cup {EventOf(TextCpuMemory, {<<"cpu_percent", a>>, <<"available_memory_mb", b>>,
                                  <<"total_memory_mb", c>>,
                                  <<"sql_memory_in_use_mb", PyInt(4096)>>}) :
            a \in {None, PyInt(50)}, b \in {Absent, None, PyInt(2048)},
            c \in {Absent, None, PyInt(65536)}}
    \cup {EventOf(TextTempdbHealth, {<<"free_space_kb", a>>, <<"user_objects_kb", b>>,
                                     <<"internal_objects_kb", PyInt(1024)>>}) :
            a \in {Absent, None, PyInt(2048)}, b \in {Absent, None, PyInt(512)}}
    \cup {EventOf(TextOther, {}), EventOf(Absent, {})}

\* Values an answer of the backend can parse to: an explanation with the four
\* entries, one lacking an entry, one with a fifth entry, one whose
\* recommendations are no list, the empty object, a list, numbers, a text,
\* null.
AiExplanation ==
    Explanation(TextOf("ai.summary", <<>>), TextOf("ai.details", <<>>),
                TextOf("ai.analysis", <<>>), <<TextOf("ai.recommendation", <<>>)>>)
Without(v, f) == JDict([g \in DOMAIN v.fields \ {f} |-> v.fields[g]])
With(v, f, x) == JDict([g \in DOMAIN v.fields \cup {f} |-> IF g = f THEN x ELSE v.fields[g]])
AiValues ==
    {AiExplanation,
     Without(AiExplanation, "analysis"),
     With(AiExplanation, "confidence", JInt(1)),
     With(AiExplanation, "recommendations", JStr(TextOf("ai.recommendation", <<>>))),
     JDict(EmptyDict),
     JList(<<JStr(TextOf("ai.summary", <<>>))>>),
     JInt(5), JInt(0),
     JStr(TextOf("ai.summary", <<>>)),
     JNull}

\* Answer texts around the serialisation of a value: bare, in a ```json block,
\* in a ``` block, in a ```json block inside prose, after prose; and texts
\* that hold no value.
AiTexts ==
    UNION {{<<Json(v)>>, <<FenceJson, Json(v), Fence>>, <<Fence, Json(v), Fence>>,
            <<Prose, FenceJson, Json(v), Fence, Prose>>, <<Prose, Json(v)>>} : v \in AiValues}
    \cup {<<>>, <<Prose>>, <<FenceJson, Prose, Fence>>}

HttpServerError == 500
HttpNotFound == 404

\* What the backend may do with a request.
Outcomes ==
    {ConnectionError, Timeout, BodyNotJson(HttpOk), BodyNotJson(HttpServerError)}
    \cup {Answer(HttpOk, text) : text \in AiTexts}
    \cup {Answer(status, <<Json(AiExplanation)>>) : status \in {HttpServerError, HttpNotFound}}

\* Events handed to evaluate_rules: slow queries above and below 5000 ms and
\* one without the field, a blocking event that carries the same field, and
\* a cpu_memory event without available_memory_mb.
SlowQueryEvent(avg_ms) ==
    EventOf(TextSlowQueries, {<<"avg_elapsed_time_ms", avg_ms>>,
                              <<"execution_count", PyInt(50)>>,
                              <<"query_text", TextSelect>>,
                              <<"avg_logical_reads", PyInt(25000)>>})
RuleEvents ==
    {SlowQueryEvent(PyInt(15000)), SlowQueryEvent(PyInt(4000)), SlowQueryEvent(Absent),
     EventOf(TextBlocking, {<<"blocking_session_id", PyInt(10)>>,
                            <<"wait_time_ms", PyInt(9000)>>,
                            <<"avg_elapsed_time_ms", PyInt(15000)>>}),
     EventOf(TextCpuMemory, {<<"cpu_percent", PyInt(95)>>})}

\* Rules as load_rules may return them: one per operator on the slow-query
\* field, an operator _compare does not know, an ordering of a text field
\* against a number, and rules for two other event types.
RuleId(n) == PyStr(<<114, 48 + n>>)
TextHigh == PyStr(<<104, 105, 103, 104>>)
TextMessage == PyStr(<<109>>)
SlowQueryRule(n, op, value, severity) ==
    Rule(RuleId(n), TextSlowQueries, "avg_elapsed_time_ms", op, value, severity,
         TextMessage, Absent)
Rules ==
    {SlowQueryRule(1, ">", PyInt(5000), TextHigh),
     SlowQueryRule(2, ">=", PyInt(4000), Absent),
     SlowQueryRule(3, "==", PyInt(15000), Absent),
     SlowQueryRule(4, "!=", PyInt(4000), Absent),
     SlowQueryRule(5, "<", PyInt(5000), Absent),
     SlowQueryRule(6, "<=", PyInt(4000), Absent),
     SlowQueryRule(7, "=~", PyInt(5000), Absent),
     Rule(RuleId(8), TextSlowQueries, "query_text", ">", PyInt(5000), TextHigh,
          TextMessage, PyList(<<TextMessage>>)),
     Rule(RuleId(9), TextBlocking, "wait_time_ms", ">", PyInt(5000), TextHigh,
          TextMessage, PyList(<<TextMessage>>)),
     Rule(RuleId(0), TextCpuMemory, "cpu_percent", ">", PyInt(90), TextHigh,
          TextMessage, PyList(<<TextMessage>>))}

\* What the backend may do with a request made during a collection cycle or
\* an evaluation: fail, or answer with an explanation.
CycleOutcomes == {ConnectionError, Answer(HttpOk, <<Json(AiExplanation)>>)}

\* The rule files load_rules may find at alert_rules_path in a cycle: a rule
\* on the wait time of a blocking event, alone or followed by a rule whose
\* threshold was written as a text.
BlockingRule(n, value) ==
    Rule(RuleId(n), TextBlocking, "wait_time_ms", ">", value, TextHigh, TextMessage, Absent)
RulesFiles ==
    {<<BlockingRule(1, PyInt(5000))>>,
     <<BlockingRule(1, PyInt(5000)), BlockingRule(2, PyStr(<<53, 48, 48, 48>>))>>}

\* Records of a replay file: the timestamp, host and instance of the recording
\* present or not (a host also null), beside a payload entry and a field of
\* the record's own at the top level.
TextRecordedHost == PyStr(<<115, 113, 108, 48, 49>>)
TextRecordedInstance == PyStr(<<80, 82, 79, 68>>)
ReplayRecords ==
    {Dict({<<"@timestamp", ts>>, <<"event_type", TextBlocking>>, <<"host", h>>,
           <<"sql_instance", si>>, <<"payload.wait_time_ms", PyInt(500)>>,
           <<"session_id", sid>>}) :
        ts \in {Absent, NowIso(0)}, h \in {Absent, None, TextRecordedHost},
        si \in {Absent, TextRecordedInstance}, sid \in {Absent, PyInt(5)}}

----------------------------------------------------------------------------
(* The program *)

NoDelta == [new |-> <<>>, changed |-> <<>>, resolved |-> <<>>, all |-> <<>>]
NoResponse == [events |-> <<>>, total |-> 0, new_count |-> 0, changed_count |-> 0,
               resolved_count |-> 0]
NoCycle == [mode |-> "none", events |-> <<>>, rules |-> <<>>, alerts |-> AlertsReturned(<<>>)]
NoOutcome == [kind |-> "none", status |-> 0, text |-> <<>>]
NoExplanation == Returned(JNull)
NoSource == [connection_string |-> FALSE, master |-> FALSE, main |-> FALSE,
             queries |-> <<>>, deadlocks |-> <<>>]
NoCollected == [raised |-> FALSE, events |-> <<>>]
NoSlowResponse == [raised |-> FALSE, events |-> <<>>, total |-> 0, new_count |-> 0,
                   changed_count |-> 0, resolved_count |-> 0]
NoServer == [connect |-> FALSE, select_session |-> FALSE, select_spid |-> FALSE,
             kill |-> FALSE]
NoKill == [raised |-> FALSE, status |-> "none", message |-> "none"]

\* No call of _calculate_delta, explain_event or evaluate_rules made yet.
NoDeltaCall ==
    /\ current_items = <<>>
    /\ previous_items = EmptyDict
    /\ key_field = "blocking_session_id"
    /\ delta = NoDelta
    /\ response = NoResponse
NoExplainCall ==
    /\ event_arg = EmptyDict
    /\ ollama = NoOutcome
    /\ ai_result = JNull
    /\ requests = 0
    /\ explanation_out = NoExplanation
NoRulesCall ==
    /\ events_arg = <<>>
    /\ rules_arg = <<>>
    /\ alerts_out = AlertsReturned(<<>>)
NoNormalizeCall ==
    /\ sample_arg = <<>>
    /\ sample_after = <<>>
    /\ enriched = <<>>
NoCollectCall ==
    /\ sql_source = NoSource
    /\ collect_out = NoCollected
NoSlowRequest ==
    /\ source_rows = <<>>
    /\ limit_arg = 0
    /\ slow_response = NoSlowResponse
NoKillRequest ==
    /\ request_arg = EmptyDict
    /\ sessions = {}
    /\ own_spid = 0
    /\ server = NoServer
    /\ issued = <<>>
    /\ kill_out = NoKill
NoSideCalls ==
    /\ NoNormalizeCall
    /\ NoCollectCall
    /\ NoSlowRequest
    /\ store_log = <<>>
    /\ NoKillRequest
NoCycleRun ==
    /\ metrics = <<>>
    /\ alerts_index = <<>>
    /\ clock = 0
    /\ last_cycle = NoCycle
    /\ cycles = 0

\* Both indexes empty, the settings at their defaults (use_ai_analysis is True).
Init ==
    /\ NoSideCalls
    /\ NoCycleRun
    /\ NoDeltaCall
    /\ NoExplainCall
    /\ NoRulesCall
    /\ use_ai_analysis = TRUE
    /\ pc = "ready"

\* A behaviour is a sequence of collection cycles followed by one /blocking
\* request: a request changes nothing a later cycle or request reads, so pc
\* leaves "ready" with the request and the behaviour ends there.

\* Lines 20-25 of cmd_collect for the collected events, at instant t: the
\* events are appended to the metrics index, the rules are loaded and
\* evaluated, and the alerts are appended to the alerts index.  When
\* evaluate_rules raises, the command ends with that exception after line 21.
StoreAndAlert(mode, collected, t) ==
    \E file \in RulesFiles :
    \E outcomes \in [1..(Len(collected) * Len(file)) -> CycleOutcomes] :
        LET result == EvaluateRules(collected, file, use_ai_analysis, outcomes, t)
        IN  /\ metrics' = IndexEvents(metrics, collected)
            /\ alerts_index' = IF result.raised THEN alerts_index
                                ELSE IndexEvents(alerts_index, result.alerts)
            /\ clock' = t + Len(result.alerts) + 1
            /\ last_cycle' = [mode |-> mode, events |-> collected, rules |-> file,
                              alerts |-> result]

\* cmd_collect with collector_mode "live": collect_from_sql builds one event per
\* row of each query.  The indexes outlive the processes, so cycles of both
\* modes may precede a request.
CmdCollectLive ==
    /\ pc = "ready"
    /\ cycles < MaxCycles
    /\ \E rows \in SeqsUpTo(BlockingRows, MaxRows), slow \in SeqsUpTo(SlowQueryRows, 1) :
          LET collected == RowEvents(TextBlocking, rows, clock)
                           \o RowEvents(TextSlowQueries, slow, clock + Len(rows))
          IN  StoreAndAlert("live", collected, clock + Len(collected))
    /\ cycles' = cycles + 1
    /\ UNCHANGED <<sideVars, deltaVars, explainVars, ruleVars, use_ai_analysis, pc>>

\* cmd_collect with collector_mode "mock": the records of the sample file go
\* through collect_mock.
CmdCollectMock ==
    /\ pc = "ready"
    /\ cycles < MaxCycles
    /\ \E sample_events \in SeqsUpTo(SampleRecords, MaxRows) :
          StoreAndAlert("mock", CollectMock(sample_events, clock + 1), clock + 1)
    /\ cycles' = cycles + 1
    /\ UNCHANGED <<sideVars, deltaVars, explainVars, ruleVars, use_ai_analysis, pc>>

\* BlockingResponse listing the resolved entries after the new and the changed
\* items.
BlockingResponseWithResolved(d) ==
    LET shown == [i \in DOMAIN d.new |-> [payload |-> d.new[i], changed_fields |-> <<>>]]
                 \o [i \in DOMAIN d.changed |->
                        [payload |-> d.changed[i].item,
                         changed_fields |-> d.changed[i].changed_fields]]
                 \o [i \in DOMAIN d.resolved |->
                        [payload |-> d.resolved[i], changed_fields |-> <<>>]]
    IN  [events |-> shown, total |-> Len(shown), new_count |-> Len(d.new),
         changed_count |-> Len(d.changed), resolved_count |-> Len(d.resolved)]

\* The response of the live /blocking handler for one delta.
BlockingResponse(d) ==
    LET shown == [i \in DOMAIN d.new |-> [payload |-> d.new[i], changed_fields |-> <<>>]]
                 \o [i \in DOMAIN d.changed |->
                        [payload |-> d.changed[i].item,
                         changed_fields |-> d.changed[i].changed_fields]]
    IN  [events |-> shown, total |-> Len(shown), new_count |-> Len(d.new),
         changed_count |-> Len(d.changed), resolved_count |-> Len(d.resolved)]

\* GET /blocking with collector_mode "live" and a connection string (the
\* branch after line 174): the rows of the blocking query are the current
\* items, the latest stored documents of type "blocking" the previous ones.
BlockingLive ==
    /\ pc = "ready"
    /\ \E rows \in SeqsUpTo(BlockingRows, MaxRows),
          hits \in SearchHits(metrics, TextBlocking, SearchSize) :
          LET previous == GetLatestCollection(hits)
          IN  \E iter \in IterOrders(rows, previous, "blocking_session_id") :
                 /\ current_items' = rows
                 /\ previous_items' = previous
                 /\ key_field' = "blocking_session_id"
                 /\ delta' = CalculateDelta(rows, previous, "blocking_session_id", iter)
                 /\ response' = BlockingResponse(delta')
    /\ pc' = "served"
    /\ UNCHANGED <<sideVars, metrics, clock, last_cycle, cycles, alerts_index, explainVars,
                   ruleVars,
                   use_ai_analysis>>

Next == CmdCollectLive \/ CmdCollectMock \/ BlockingLive

Spec == Init /\ [][Next]_vars

----------------------------------------------------------------------------
(* _calculate_delta on its own: a batch and a previous map are drawn, then   *)
(* classified.                                                             *)

InitDelta ==
    /\ NoSideCalls
    /\ NoCycleRun
    /\ NoExplainCall
    /\ NoRulesCall
    /\ use_ai_analysis = TRUE
    /\ current_items \in SeqsUpTo(Items, MaxBatch)
    /\ previous_items \in PreviousMaps \cup {KeysOf(current_items, "blocking_session_id")}
    /\ key_field = "blocking_session_id"
    /\ delta = NoDelta
    /\ response = NoResponse
    /\ pc = "ready"

Classify ==
    /\ pc = "ready"
    /\ \E iter \in IterOrders(current_items, previous_items, key_field) :
          delta' = CalculateDelta(current_items, previous_items, key_field, iter)
    /\ pc' = "classified"
    /\ UNCHANGED <<sideVars, metrics, clock, last_cycle, cycles, current_items, previous_items,
                   key_field, response, alerts_index, explainVars, ruleVars,
                   use_ai_analysis>>

NextDelta == Classify

SpecDelta == InitDelta /\ [][NextDelta]_vars

----------------------------------------------------------------------------
(* explain_event on its own: an event and the setting are drawn, then the    *)
(* event is explained.  The request to the backend is a step of its own.     *)

InitExplain ==
    /\ NoSideCalls
    /\ NoCycleRun
    /\ NoDeltaCall
    /\ NoRulesCall
    /\ event_arg \in ExplainEvents
    /\ use_ai_analysis \in BOOLEAN
    /\ ollama = NoOutcome
    /\ ai_result = JNull
    /\ requests = 0
    /\ explanation_out = NoExplanation
    /\ pc = "ready"

\* Lines 223-224: with use_ai_analysis on, _call_ollama_ai sends one request;
\* whatever the backend does with it, the call returns a value or None.
AskPrimary ==
    /\ pc = "ready"
    /\ use_ai_analysis
    /\ \E outcome \in Outcomes :
          /\ ollama' = outcome
          /\ ai_result' = CallOllamaAi(event_arg, outcome)
    /\ requests' = requests + 1
    /\ pc' = "asked"
    /\ UNCHANGED <<sideVars, metrics, clock, last_cycle, cycles, alerts_index, deltaVars, ruleVars,
                   use_ai_analysis, event_arg, explanation_out>>

\* Lines 225-226: a truthy ai_result is returned as it is.
ReturnPrimary ==
    /\ pc = "asked"
    /\ JTruthy(ai_result)
    /\ explanation_out' = Returned(ai_result)
    /\ pc' = "explained"
    /\ UNCHANGED <<sideVars, metrics, clock, last_cycle, cycles, alerts_index, deltaVars, ruleVars,
                   use_ai_analysis, event_arg, ollama, ai_result, requests>>

\* Line 229: without a truthy ai_result the call ends as
\* _get_fallback_explanation does.
FallBack ==
    /\ \/ pc = "ready" /\ ~use_ai_analysis
       \/ pc = "asked" /\ ~JTruthy(ai_result)
    /\ explanation_out' = GetFallbackExplanation(event_arg)
    /\ pc' = "explained"
    /\ UNCHANGED <<sideVars, metrics, clock, last_cycle, cycles, alerts_index, deltaVars, ruleVars,
                   use_ai_analysis, event_arg, ollama, ai_result, requests>>

NextExplain == AskPrimary \/ ReturnPrimary \/ FallBack

SpecExplain == InitExplain /\ [][NextExplain]_vars

----------------------------------------------------------------------------
(* evaluate_rules on its own: events, rules and the setting are drawn, then  *)
(* the rules are evaluated.                                                  *)

InitRules ==
    /\ NoSideCalls
    /\ NoCycleRun
    /\ NoDeltaCall
    /\ NoExplainCall
    /\ events_arg \in SeqsUpTo(RuleEvents, MaxEvents)
    /\ rules_arg \in SeqsUpTo(Rules, MaxRuleCount)
    /\ use_ai_analysis \in BOOLEAN
    /\ alerts_out = AlertsReturned(<<>>)
    /\ pc = "ready"

Evaluate ==
    /\ pc = "ready"
    /\ \E outcomes \in [1..(Len(events_arg) * Len(rules_arg)) -> CycleOutcomes] :
          alerts_out' = EvaluateRules(events_arg, rules_arg, use_ai_analysis, outcomes, clock)
    /\ clock' = clock + Len(alerts_out'.alerts)
    /\ pc' = "evaluated"
    /\ UNCHANGED <<sideVars, metrics, last_cycle, cycles, alerts_index, deltaVars, explainVars,
                   events_arg, rules_arg, use_ai_analysis>>

NextRules == Evaluate

SpecRules == InitRules /\ [][NextRules]_vars

----------------------------------------------------------------------------
(* Normalization on its own: the records of a replay file go through          *)
(* collect_mock, or the rows of a query through _build_event.                 *)

InitNormalize ==
    /\ NoCycleRun
    /\ NoDeltaCall
    /\ NoExplainCall
    /\ NoRulesCall
    /\ NoCollectCall
    /\ NoSlowRequest
    /\ NoKillRequest
    /\ store_log = <<>>
    /\ use_ai_analysis = TRUE
    /\ \/ /\ pc = "records"
          /\ sample_arg \in SeqsUpTo(ReplayRecords, MaxRows)
       \/ /\ pc = "rows"
          /\ sample_arg \in SeqsUpTo(BlockingRows \cup SlowQueryRows, MaxRows)
    /\ sample_after = sample_arg
    /\ enriched = <<>>

NormalizeRecords ==
    /\ pc = "records"
    /\ enriched' = CollectMock(sample_arg, clock + 1)
    /\ sample_after' = InputAfterCollectMock(sample_arg)
    /\ clock' = clock + 1
    /\ pc' = "normalized"
    /\ UNCHANGED <<metrics, last_cycle, cycles, alerts_index, deltaVars, explainVars,
                   ruleVars, use_ai_analysis, sample_arg, collectVars, slowVars,
                   store_log, killVars>>

NormalizeRows ==
    /\ pc = "rows"
    /\ \E event_type \in {TextBlocking, TextSlowQueries} :
          enriched' = RowEvents(event_type, sample_arg, clock)
    /\ sample_after' = sample_arg
    /\ clock' = clock + Len(sample_arg)
    /\ pc' = "built"
    /\ UNCHANGED <<metrics, last_cycle, cycles, alerts_index, deltaVars, explainVars,
                   ruleVars, use_ai_analysis, sample_arg, collectVars, slowVars,
                   store_log, killVars>>

NextNormalize == NormalizeRecords \/ NormalizeRows

SpecNormalize == InitNormalize /\ [][NextNormalize]_vars

----------------------------------------------------------------------------
(* GET /slow-queries on its own: dashboard.py 313-340 *)

MaxSlowRows == 3

\* The limit parameter: Query(10, ge=1, le=100).
LimitDefault == 10
LimitMin == 1
LimitMax == 100
Limits == {LimitMin, LimitMin + 1, LimitDefault, LimitMax}

\* Rows of the slow_queries query: the requests executing now.
ExecutingRow(session_id, elapsed) ==
    Dict({<<"session_id", PyInt(session_id)>>, <<"status", None>>,
          <<"elapsed_time_ms", PyInt(elapsed)>>})
ExecutingRows == {ExecutingRow(60, 9000), ExecutingRow(61, 9000), ExecutingRow(62, 500)}

\* What the handler returns for the rows fetched: lines 323-340.
SlowQueriesResponse(rows, limit) ==
    LET limited == SubSeq(rows, 1, Min(limit, Len(rows)))
        events == [i \in DOMAIN limited |-> [payload |-> limited[i]]]
    IN  [raised |-> FALSE, events |-> events, total |-> Len(events), new_count |-> 0,
         changed_count |-> 0, resolved_count |-> 0]

\* The metrics index holds nothing or the slow queries of an earlier cycle.
InitSlow ==
    /\ NoDeltaCall
    /\ NoExplainCall
    /\ NoRulesCall
    /\ NoNormalizeCall
    /\ NoCollectCall
    /\ NoKillRequest
    /\ store_log = <<>>
    /\ use_ai_analysis = TRUE
    /\ alerts_index = <<>>
    /\ last_cycle = NoCycle
    /\ \E stored \in SeqsUpTo(ExecutingRows, 1) :
          /\ metrics = RowEvents(TextSlowQueries, stored, 0)
          /\ clock = Len(stored)
          /\ cycles = Len(stored)
    /\ source_rows \in SeqsUpTo(ExecutingRows, MaxSlowRows)
    /\ limit_arg \in Limits
    /\ slow_response = NoSlowResponse
    /\ pc = "ready"

\* The request is served: the query runs on a new connection and its rows are
\* returned.
SlowQueries ==
    /\ pc = "ready"
    /\ slow_response' = SlowQueriesResponse(source_rows, limit_arg)
    /\ pc' = "served"
    /\ UNCHANGED <<metrics, clock, last_cycle, cycles, alerts_index, deltaVars, explainVars,
                   ruleVars, use_ai_analysis, normalizeVars, collectVars, source_rows,
                   limit_arg, store_log, killVars>>

\* pyodbc.connect or cursor.execute raises (lines 317-319): nothing catches
\* it in the handler.
SlowQueriesFails ==
    /\ pc = "ready"
    /\ slow_response' = [NoSlowResponse EXCEPT !.raised = TRUE]
    /\ pc' = "failed"
    /\ UNCHANGED <<metrics, clock, last_cycle, cycles, alerts_index, deltaVars, explainVars,
                   ruleVars, use_ai_analysis, normalizeVars, collectVars, source_rows,
                   limit_arg, store_log, killVars>>

NextSlow == SlowQueries \/ SlowQueriesFails

SpecSlow == InitSlow /\ [][NextSlow]_vars

----------------------------------------------------------------------------
(* cmd_collect statement by statement: cli.py 13-25 *)

\* cmd_collect handing the alerts to the store before the events.
CmdCollectStepsAlertsFirst == <<"collect", "evaluate_rules", "index_alerts", "index_events">>

\* The statements of cmd_collect in the order of the text: lines 14-18, 21,
\* 23-24 and 25.
CmdCollectSteps == <<"collect", "index_events", "evaluate_rules", "index_alerts">>

\* The statement after a statement, "done" after the last.
NextStep(step) ==
    LET i == CHOOSE j \in DOMAIN CmdCollectSteps : CmdCollectSteps[j] = step
    IN  IF i = Len(CmdCollectSteps) THEN "done" ELSE CmdCollectSteps[i + 1]

\* What a bulk request leaves in the log of requests.
BulkRequest(index, docs) == [index |-> index, cycle |-> cycles + 1, docs |-> docs]

InitCycle ==
    /\ NoCycleRun
    /\ NoDeltaCall
    /\ NoExplainCall
    /\ NoRulesCall
    /\ NoSideCalls
    /\ use_ai_analysis = TRUE
    /\ pc = CmdCollectSteps[1]

\* Lines 14-18: the events of the cycle are collected.
CycleCollect ==
    /\ pc = "collect"
    /\ \/ \E rows \in SeqsUpTo(BlockingRows, MaxRows) :
             /\ events_arg' = RowEvents(TextBlocking, rows, clock)
             /\ clock' = clock + Len(rows)
       \/ \E sample_events \in SeqsUpTo(SampleRecords, 1) :
             /\ events_arg' = CollectMock(sample_events, clock + 1)
             /\ clock' = clock + 1
    /\ pc' = NextStep("collect")
    /\ UNCHANGED <<metrics, last_cycle, cycles, alerts_index, deltaVars, explainVars,
                   rules_arg, alerts_out, use_ai_analysis, sideVars>>

\* collect_from_sql or read_jsonl raises: the command ends there.
CycleCollectFails ==
    /\ pc = "collect"
    /\ pc' = "failed"
    /\ UNCHANGED <<metrics, clock, last_cycle, cycles, alerts_index, deltaVars, explainVars,
                   ruleVars, use_ai_analysis, sideVars>>

\* Line 21: index_events sends one bulk request for the events, none for an
\* empty list.
CycleIndexEvents ==
    /\ pc = "index_events"
    /\ IF events_arg = <<>> THEN UNCHANGED <<metrics, store_log>>
       ELSE /\ metrics' = IndexEvents(metrics, events_arg)
            /\ store_log' = Append(store_log, BulkRequest("metrics", events_arg))
    /\ pc' = NextStep("index_events")
    /\ UNCHANGED <<clock, last_cycle, cycles, alerts_index, deltaVars, explainVars, ruleVars,
                   use_ai_analysis, normalizeVars, collectVars, slowVars, killVars>>

\* Lines 23-24: the rules are loaded and evaluated; an exception of
\* evaluate_rules ends the command.
CycleEvaluate ==
    /\ pc = "evaluate_rules"
    /\ \E file \in RulesFiles :
       \E outcomes \in [1..(Len(events_arg) * Len(file)) -> CycleOutcomes] :
          /\ rules_arg' = file
          /\ alerts_out' = EvaluateRules(events_arg, file, use_ai_analysis, outcomes, clock)
    /\ clock' = clock + Len(alerts_out'.alerts)
    /\ pc' = IF alerts_out'.raised THEN "failed" ELSE NextStep("evaluate_rules")
    /\ UNCHANGED <<metrics, last_cycle, cycles, alerts_index, deltaVars, explainVars,
                   events_arg, use_ai_analysis, sideVars>>

\* Line 25: index_events sends one bulk request for the alerts, none for an
\* empty list.
CycleIndexAlerts ==
    /\ pc = "index_alerts"
    /\ IF alerts_out.alerts = <<>> THEN UNCHANGED <<alerts_index, store_log>>
       ELSE /\ alerts_index' = IndexEvents(alerts_index, alerts_out.alerts)
            /\ store_log' = Append(store_log, BulkRequest("alerts", alerts_out.alerts))
    /\ pc' = NextStep("index_alerts")
    /\ UNCHANGED <<metrics, clock, last_cycle, cycles, deltaVars, explainVars, ruleVars,
                   use_ai_analysis, normalizeVars, collectVars, slowVars, killVars>>

\* client.bulk raises at line 21 or 25 (no connection to the store): nothing
\* is indexed by the request and the command ends.
CycleBulkFails ==
    /\ \/ pc = "index_events" /\ events_arg # <<>>
       \/ pc = "index_alerts" /\ alerts_out.alerts # <<>>
    /\ pc' = "failed"
    /\ UNCHANGED <<metrics, clock, last_cycle, cycles, alerts_index, deltaVars, explainVars,
                   ruleVars, use_ai_analysis, sideVars>>

\* The command has ended; the next run of it starts with the indexes as they
\* are.
CycleAgain ==
    /\ pc \in {"done", "failed"}
    /\ cycles + 1 < MaxCycles
    /\ cycles' = cycles + 1
    /\ events_arg' = <<>>
    /\ rules_arg' = <<>>
    /\ alerts_out' = AlertsReturned(<<>>)
    /\ pc' = CmdCollectSteps[1]
    /\ UNCHANGED <<metrics, clock, last_cycle, alerts_index, deltaVars, explainVars,
                   use_ai_analysis, sideVars>>

NextCycle ==
    \/ CycleCollect
    \/ CycleCollectFails
    \/ CycleIndexEvents
    \/ CycleEvaluate
    \/ CycleIndexAlerts
    \/ CycleBulkFails
    \/ CycleAgain

SpecCycle == InitCycle /\ [][NextCycle]_vars

----------------------------------------------------------------------------
(* collect_from_sql on its own: collector.py 30-69 *)

\* The event types of SQL_QUERIES in the order of the dict.
TextSlowQueriesHistorical ==
    PyStr(<<115, 108, 111, 119, 95, 113, 117, 101, 114, 105, 101, 115, 95, 104, 105, 115,
            116, 111, 114, 105, 99, 97, 108>>)
SqlQueryTypes ==
    <<TextBlocking, TextOpenTransactions, TextMissingIndexes, TextSlowQueries,
      TextSlowQueriesHistorical, TextCpuMemory, TextTempdbHealth>>

\* What a query does: cursor.execute or fetchall raises, or the rows come back;
\* DEADLOCK_QUERY may also run without a result set (cursor.description None).
QueryFails == [failed |-> TRUE, described |-> FALSE, rows |-> <<>>]
QueryRows(rows) == [failed |-> FALSE, described |-> TRUE, rows |-> rows]
NoResultSet == [failed |-> FALSE, described |-> FALSE, rows |-> <<>>]

CollectRaised == [raised |-> TRUE, events |-> <<>>]
CollectReturned(events) == [raised |-> FALSE, events |-> events]

\* The loop of lines 50-57 from the n-th query on, `events` being the list
\* built so far; the clock is read once per event.
RECURSIVE CollectQueries(_, _, _, _)
CollectQueries(queries, n, events, t) ==
    IF n > Len(queries) THEN events
    ELSE IF queries[n].failed \/ ~queries[n].described
         THEN CollectQueries(queries, n + 1, events, t)
         ELSE CollectQueries(queries, n + 1,
                             events \o RowEvents(SqlQueryTypes[n], queries[n].rows,
                                                 t + Len(events)),
                             t)

\* Lines 59-67: the deadlock source.
CollectDeadlocks(outcome, events, t) ==
    IF outcome.failed \/ ~outcome.described THEN events
    ELSE events \o RowEvents(TextDeadlocks, outcome.rows, t + Len(events))

\* collect_from_sql without the try/except of lines 51-57 and 59-67.
CollectFromSqlAborting(src, t) ==
    IF ~src.connection_string \/ ~src.main THEN CollectRaised
    ELSE IF src.deadlocks.failed \/ \E n \in DOMAIN src.queries :
                                        src.queries[n].failed \/ ~src.queries[n].described
    THEN CollectRaised
    ELSE CollectReturned(CollectDeadlocks(src.deadlocks,
                                          CollectQueries(src.queries, 1, <<>>, t), t))

\* collect_from_sql() at instant t against a data source.
CollectFromSql(src, t) ==
    IF ~src.connection_string THEN CollectRaised
    ELSE IF ~src.main THEN CollectRaised
    ELSE CollectReturned(CollectDeadlocks(src.deadlocks,
                                          CollectQueries(src.queries, 1, <<>>, t), t))

\* Data sources: no connection string; the connection to master or the main
\* connection refused; each query failing, without a result set, or returning
\* rows (the blocking query up to MaxRows, the others one).
MetricRows == {Dict({<<"session_id", PyInt(60)>>, <<"status", None>>})}
QueryOutcomes(rows, n) == {QueryFails} \cup {QueryRows(r) : r \in SeqsUpTo(rows, n)}
Sources ==
    {[connection_string |-> c, master |-> m, main |-> o, queries |-> q, deadlocks |-> d] :
        c \in BOOLEAN, m \in BOOLEAN, o \in BOOLEAN,
        q \in {<<b>> \o rest : b \in QueryOutcomes(BlockingRows, MaxRows),
                                rest \in [1..(Len(SqlQueryTypes) - 1) ->
                                             {QueryFails} \cup {QueryRows(<<r>>) :
                                                                    r \in MetricRows}]},
        d \in {NoResultSet} \cup QueryOutcomes(MetricRows, 1)}

InitCollect ==
    /\ NoCycleRun
    /\ NoDeltaCall
    /\ NoExplainCall
    /\ NoRulesCall
    /\ NoNormalizeCall
    /\ NoSlowRequest
    /\ NoKillRequest
    /\ store_log = <<>>
    /\ use_ai_analysis = TRUE
    /\ sql_source \in Sources
    /\ collect_out = NoCollected
    /\ pc = "ready"

CollectLive ==
    /\ pc = "ready"
    /\ collect_out' = CollectFromSql(sql_source, clock)
    /\ clock' = clock + Len(collect_out'.events)
    /\ pc' = "collected"
    /\ UNCHANGED <<metrics, last_cycle, cycles, alerts_index, deltaVars, explainVars, ruleVars,
                   use_ai_analysis, normalizeVars, sql_source, slowVars, store_log, killVars>>

NextCollect == CollectLive

SpecCollect == InitCollect /\ [][NextCollect]_vars

----------------------------------------------------------------------------
(* POST /kill-session on its own: dashboard.py 422-469 *)

\* `not session_id`: a missing or null id, 0 and the empty text are falsy.
Falsy(v) == v \in {None, PyInt(0), PyStr(<<>>)}

\* A text of decimal digits, and the number it writes.
IsNumeral(codes) == codes # <<>> /\ \A i \in DOMAIN codes : codes[i] \in 48..57
RECURSIVE NumberOf(_)
NumberOf(codes) ==
    IF codes = <<>> THEN 0
    ELSE 10 * NumberOf(SubSeq(codes, 1, Len(codes) - 1)) + (codes[Len(codes)] - 48)

\* Whether a session id converts to a number, in the parameter of the SELECT
\* and in int(session_id), and the number.
Converts(session_id) == IsInt(session_id) \/ (IsStr(session_id) /\ IsNumeral(session_id[2]))
SpidOf(session_id) == IF IsInt(session_id) THEN session_id[2][1] ELSE NumberOf(session_id[2])

\* A statement executed on the cursor, and what the handler returns.
Statement(name, session_id) == [statement |-> name, argument |-> session_id]
KillResult(executed, status, message) ==
    [issued |-> executed, out |-> [raised |-> FALSE, status |-> status, message |-> message]]

\* kill_session killing without the test of lines 447-451.
KillSessionNoOwnCheck(request, listed, own, srv) ==
    LET session_id == Get(request, "session_id")
        select == <<Statement("select_session", session_id)>>
        spid == select \o <<Statement("select_spid", None)>>
        kill == spid \o <<Statement("kill", session_id)>>
    IN  IF Falsy(session_id) THEN KillResult(<<>>, "error", "session_id is required")
        ELSE IF ~srv.connect THEN KillResult(<<>>, "error", "failed")
        ELSE IF ~srv.select_session \/ ~Converts(session_id)
        THEN KillResult(select, "error", "failed")
        ELSE IF SpidOf(session_id) \notin listed
        THEN KillResult(select, "error", "session not found")
        ELSE IF ~srv.select_spid THEN KillResult(spid, "error", "failed")
        ELSE IF ~srv.kill THEN KillResult(kill, "error", "failed")
        ELSE KillResult(kill, "success", "killed")

\* kill_session(request) with the sessions listed in sys.dm_exec_sessions, the
\* session id of the handler's own connection, and a server on which the
\* connection or a statement may fail (pyodbc.Error, caught at line 457).
KillSession(request, listed, own, srv) ==
    LET session_id == Get(request, "session_id")
        select == <<Statement("select_session", session_id)>>
        spid == select \o <<Statement("select_spid", None)>>
        kill == spid \o <<Statement("kill", session_id)>>
    IN  IF Falsy(session_id) THEN KillResult(<<>>, "error", "session_id is required")
        ELSE IF ~srv.connect THEN KillResult(<<>>, "error", "failed")
        ELSE IF ~srv.select_session \/ ~Converts(session_id)
        THEN KillResult(select, "error", "failed")
        ELSE IF SpidOf(session_id) \notin listed
        THEN KillResult(select, "error", "session not found")
        ELSE IF ~srv.select_spid THEN KillResult(spid, "error", "failed")
        ELSE IF SpidOf(session_id) = own
        THEN KillResult(spid, "error", "own session")
        ELSE IF ~srv.kill THEN KillResult(kill, "error", "failed")
        ELSE KillResult(kill, "success", "killed")

\* Request bodies: no session_id, a null, zero or empty one, the id of a
\* session as a number or a text, and a text that is no number.
KillRequests ==
    {Dict({<<"session_id", v>>}) :
        v \in {Absent, None, PyInt(0), PyStr(<<>>), PyInt(52), PyInt(53), PyInt(99),
               PyStr(<<53, 50>>), PyStr(<<53, 51>>), PyStr(<<97, 98, 99>>)}}

InitKill ==
    /\ NoCycleRun
    /\ NoDeltaCall
    /\ NoExplainCall
    /\ NoRulesCall
    /\ NoNormalizeCall
    /\ NoCollectCall
    /\ NoSlowRequest
    /\ store_log = <<>>
    /\ use_ai_analysis = TRUE
    /\ request_arg \in KillRequests
    /\ sessions \in {{52}, {52, 53}}
    /\ own_spid \in sessions
    /\ server \in [connect : BOOLEAN, select_session : BOOLEAN, select_spid : BOOLEAN,
                    kill : BOOLEAN]
    /\ issued = <<>>
    /\ kill_out = NoKill
    /\ pc = "ready"

KillSessionRequest ==
    /\ pc = "ready"
    /\ LET result == KillSession(request_arg, sessions, own_spid, server)
       IN  /\ issued' = result.issued
           /\ kill_out' = result.out
           /\ sessions' = IF result.out.status = "success"
                           THEN sessions \ {SpidOf(Get(request_arg, "session_id"))}
                           ELSE sessions
    /\ pc' = "served"
    /\ UNCHANGED <<metrics, clock, last_cycle, cycles, alerts_index, deltaVars, explainVars,
                   ruleVars, use_ai_analysis, normalizeVars, collectVars, slowVars, store_log,
                   request_arg, own_spid, server>>

NextKill == KillSessionRequest

SpecKill == InitKill /\ [][NextKill]_vars

----------------------------------------------------------------------------
(* Properties of _calculate_delta (SpecDelta) *)

Classified == pc = "classified"

\* How often x occurs in a sequence.
Occ(seq, x) == Cardinality({i \in DOMAIN seq : seq[i] = x})

\* The identity key of a current item, and whether the item has one.
ItemKey(item) == Str(Get(item, key_field))
Keyless(item) == Get(item, key_field) = None

ChangedItems == [i \in DOMAIN delta.changed |-> delta.changed[i].item]

\* The compared fields present on both sides whose values differ.
Differing(current, previous) ==
    {f \in Range(CompareFields) :
        f \in DOMAIN current /\ f \in DOMAIN previous /\ current[f] # previous[f]}

\* The current item the batch holds last under key k.
LastOfKey(k) ==
    current_items[CHOOSE i \in DOMAIN current_items :
                     /\ ItemKey(current_items[i]) = k
                     /\ \A j \in DOMAIN current_items :
                           ItemKey(current_items[j]) = k => j <= i]

\* An item is unchanged when its key is a key of previous and no compared
\* field differs.
Unchanged(item) ==
    /\ ItemKey(item) \in DOMAIN previous_items
    /\ Differing(item, previous_items[ItemKey(item)]) = {}

\* C1: every current item is classified exactly once: each occurrence of an
\* item in the batch is an occurrence in `new`, or one in `changed`, or is
\* unchanged, so |new| + |changed| + |unchanged| = |current batch|.  Stated
\* for the batches in which every item carries the key field.
C1_EveryItemClassifiedOnce ==
    (Classified /\ \A x \in Range(current_items) : ~Keyless(x)) =>
        /\ \A x \in Range(current_items) :
              Occ(delta.new, x) + Occ(ChangedItems, x)
                + (IF Unchanged(x) THEN Occ(current_items, x) ELSE 0)
              = Occ(current_items, x)
        /\ Len(delta.new) + Len(delta.changed)
             + Cardinality({i \in DOMAIN current_items : Unchanged(current_items[i])})
           = Len(current_items)

\* C2: `resolved` holds exactly the previous entries whose identity key is the
\* key of no current item, `new` exactly the current keys that are no key of
\* previous, whether previous stores the key as an int or as its text.
C2_ResolvedAndNewByIdentity ==
    Classified =>
        LET current_keys == {ItemKey(current_items[i]) : i \in DOMAIN current_items}
            previous_keys == {Str(k) : k \in DOMAIN previous_items}
        IN  /\ Range(delta.resolved)
                 = {previous_items[k] :
                       k \in {j \in DOMAIN previous_items : Str(j) \notin current_keys}}
            /\ {ItemKey(x) : x \in Range(delta.new)} = current_keys \ previous_keys

\* C6: for a key of both current and previous the item is in `changed` exactly
\* when a compared field present on both sides differs, with one record
\* {field, old, new} per differing field; and the end-to-end example.
ExampleCurrent ==
    <<Dict({<<"blocking_session_id", PyInt(10)>>, <<"wait_time_ms", PyInt(9000)>>}),
      Dict({<<"blocking_session_id", PyInt(11)>>, <<"wait_time_ms", PyInt(200)>>})>>
ExamplePrevious ==
    [k \in {PyStr(<<49, 48>>)} |->
        Dict({<<"blocking_session_id", PyInt(10)>>, <<"wait_time_ms", PyInt(500)>>})]

C6_ChangedIffFieldDiffers ==
    Classified =>
        LET common == {ItemKey(current_items[i]) : i \in DOMAIN current_items}
                      \cap DOMAIN previous_items
            differing(k) == Differing(LastOfKey(k), previous_items[k])
            entries(k) == {i \in DOMAIN delta.changed : delta.changed[i].item = LastOfKey(k)}
        IN  /\ \A k \in common :
                  /\ (entries(k) # {}) <=> (differing(k) # {})
                  /\ \A i \in entries(k) :
                        /\ Len(delta.changed[i].changed_fields) = Cardinality(differing(k))
                        /\ Range(delta.changed[i].changed_fields)
                             = {[field |-> f, old |-> previous_items[k][f],
                                 new |-> LastOfKey(k)[f]] : f \in differing(k)}
            /\ Len(delta.changed) = Cardinality({k \in common : differing(k) # {}})
            /\ (current_items = ExampleCurrent /\ previous_items = ExamplePrevious) =>
                  /\ delta.new = <<ExampleCurrent[2]>>
                  /\ delta.changed
                       = <<[item |-> ExampleCurrent[1],
                            changed_fields |-> <<[field |-> "wait_time_ms",
                                                  old |-> PyInt(500),
                                                  new |-> PyInt(9000)]>>]>>
                  /\ delta.resolved = <<>>

C6_Witness ==
    Classified /\ current_items = ExampleCurrent /\ previous_items = ExamplePrevious

\* C7: against an empty previous map every item of the batch is in `new`, each
\* once, and `changed` and `resolved` are empty.  Stated for the batches in
\* which every item carries the key field.
C7_EmptyPreviousAllNew ==
    (Classified /\ previous_items = EmptyDict /\ \A x \in Range(current_items) : ~Keyless(x)) =>
        /\ \A x \in Range(current_items) : Occ(delta.new, x) = Occ(current_items, x)
        /\ Len(delta.new) = Len(current_items)
        /\ delta.changed = <<>>
        /\ delta.resolved = <<>>

C9_KeylessItemsAreNew ==
    (Classified /\ Str(None) \notin DOMAIN previous_items) =>
        \A x \in {y \in Range(current_items) : Keyless(y)} :
            /\ Occ(delta.new, x) = Occ(current_items, x)
            /\ Occ(ChangedItems, x) = 0

\* C10: a compared field absent from the current item or from the previous
\* entry yields no field-change record and does not make the item changed.
C10_AbsentFieldSkipped ==
    Classified =>
        \A i \in DOMAIN delta.changed :
            LET entry == delta.changed[i]
                previous == previous_items[ItemKey(entry.item)]
            IN  /\ entry.changed_fields # <<>>
                /\ \A n \in DOMAIN entry.changed_fields :
                      /\ entry.changed_fields[n].field \in DOMAIN entry.item
                      /\ entry.changed_fields[n].field \in DOMAIN previous

C10_Witness ==
    /\ Classified
    /\ \E i \in DOMAIN current_items :
          LET item == current_items[i]
          IN  /\ ~Keyless(item)
              /\ ItemKey(item) \in DOMAIN previous_items
              /\ LastOfKey(ItemKey(item)) = item
              /\ "wait_time_ms" \in DOMAIN item
              /\ "wait_time_ms" \notin DOMAIN previous_items[ItemKey(item)]
              /\ Occ(ChangedItems, item) = 0

----------------------------------------------------------------------------
(* Properties across collection cycles and /blocking requests (Spec) *)

Served == pc = "served"

\* The payloads the last response shows.
ShownPayloads == {response.events[i].payload : i \in DOMAIN response.events}

\* A stored event records the condition a row shows: the same blocking
\* session, and the same value in every compared field.
SameCondition(stored, row) ==
    LET payload == PayloadOf(stored)
    IN  /\ stored["event_type"] = TextBlocking
        /\ Get(payload, "blocking_session_id") = Get(row, "blocking_session_id")
        /\ \A f \in Range(CompareFields) : Get(payload, f) = Get(row, f)

\* C3: a row that the /blocking request following a live collection cycle
\* observes with the identity and the compared values the cycle recorded is
\* not among the returned events.
C3_RecordedConditionNotShown ==
    (Served /\ last_cycle.mode = "live") =>
        \A i \in DOMAIN current_items :
            (\E e \in Range(last_cycle.events) : SameCondition(e, current_items[i]))
                => current_items[i] \notin ShownPayloads

\* C4: the previous map holds only documents that the most recently completed
\* collection cycle persisted.
C4_PreviousFromLatestCycle ==
    Served =>
        \A k \in DOMAIN previous_items : previous_items[k] \in Range(last_cycle.events)

\* C5: the key of a stored document is the text of its session_id, else the
\* first 100 characters of its query_text, else the text of its deadlock_id;
\* so every key of the previous map is a string.  Stated for the documents
\* that carry a session_id.
TextKey(source) ==
    IF "session_id" \in DOMAIN source THEN Str(source["session_id"])
    ELSE IF "query_text" \in DOMAIN source
         THEN PyStr([i \in 1..Min(KeyPrefixLen, Len(source["query_text"][2])) |->
                        source["query_text"][2][i]])
    ELSE Str(source["deadlock_id"])

C5_KeyIsStringified ==
    Served =>
        \A k \in DOMAIN previous_items :
            "session_id" \in DOMAIN previous_items[k]
                => IsStr(k) /\ k = TextKey(previous_items[k])

C11_WitnessEmptyBatch ==
    Served /\ current_items = <<>> /\ Cardinality(DOMAIN previous_items) = 2

C11_WitnessUnchanged ==
    Served /\ \E x \in Range(current_items) : Unchanged(x)

----------------------------------------------------------------------------
(* Properties of explain_event (SpecExplain) *)

Explained == pc = "explained"

\* A well-formed explanation: a dict with a summary, details, an analysis
\* and a list of recommendations; and one with exactly these four entries.
FourFields == {"summary", "details", "analysis", "recommendations"}
WellFormed(v) ==
    /\ v.kind = "dict"
    /\ FourFields \subseteq DOMAIN v.fields
    /\ v.fields["recommendations"].kind = "list"
ExactlyFour(v) == v.kind = "dict" /\ DOMAIN v.fields = FourFields

\* The request of the call failed: no connection, a timeout, a status other
\* than 200, a body or an answer text that is no JSON.
PrimaryFailed ==
    /\ requests = 1
    /\ \/ ollama.kind \in {"connection_error", "timeout", "body_not_json"}
       \/ ollama.status # HttpOk
       \/ JsonLoads(ExtractJson(ollama.text)).raised

\* The call returned the fallback explanation of its event.
ReturnedFallback ==
    /\ ~explanation_out.raised
    /\ explanation_out = GetFallbackExplanation(event_arg)

\* C12: explain_event never fails: whatever the event's type and payload and
\* whatever the backend does, the call raises nothing and returns a dict with
\* a summary, details, an analysis and a list of recommendations.
C12_ExplainNeverFails ==
    Explained => ~explanation_out.raised /\ WellFormed(explanation_out.value)

\* C13: after a failed request _call_ollama_ai returns None and explain_event
\* returns the fallback explanation of the event; nothing is raised.
C13_PrimaryFailureFallsBack ==
    /\ PrimaryFailed => ai_result = JNull
    /\ (Explained /\ PrimaryFailed) => ReturnedFallback

\* C14: the result of explain_event is the answer of the backend only when
\* the answer parsed to a dict with exactly the four entries; after any other
\* answer the call ends as _get_fallback_explanation does for the event.
C14_OnlyCompleteAnswersReturned ==
    Explained =>
        \/ explanation_out = GetFallbackExplanation(event_arg)
        \/ /\ explanation_out = Returned(ai_result)
           /\ ExactlyFour(ai_result)

\* C15: a call sends at most one request, none with use_ai_analysis off, and
\* then returns the fallback explanation of the event's type; after a failed
\* request it returns the fallback explanation without another request.
C15_AtMostOneRequestThenFallback ==
    /\ requests <= 1
    /\ ~use_ai_analysis => requests = 0
    /\ (Explained /\ ~use_ai_analysis) => ReturnedFallback
    /\ (Explained /\ requests = 1 /\ ~JTruthy(ai_result)) => ReturnedFallback

\* The part of C15 that is about requests: at most one per call, none with the
\* setting off, and the step after a request whose result is unusable is the
\* fallback, with no further request.
RequestsAtMostOnce ==
    /\ requests <= 1
    /\ ~use_ai_analysis => requests = 0
    /\ (Explained /\ (requests = 0 \/ ~JTruthy(ai_result)))
          => explanation_out = GetFallbackExplanation(event_arg)

\* A text ends with the codes of a suffix.
EndsWith(text, suffix) ==
    /\ Len(text[2]) >= Len(suffix)
    /\ SubSeq(text[2], Len(text[2]) - Len(suffix) + 1, Len(text[2])) = suffix

\* The average duration of the slow_queries event explained, and the duration
\* the summary of its explanation states.
AvgElapsed == Get(PayloadOf(event_arg), "avg_elapsed_time_ms")
DurationStated == explanation_out.value.fields["summary"].text.args[1]

\* C25: the fallback explanation of a slow_queries event states the average
\* duration in seconds when avg_elapsed_time_ms is 1000 or more and in
\* milliseconds when it is less.
C25_SecondsFromOneThousand ==
    (/\ Explained
     /\ ReturnedFallback
     /\ Get(event_arg, "event_type") = TextSlowQueries
     /\ IsInt(AvgElapsed))
        => IF AvgElapsed[2][1] >= 1000
           THEN EndsWith(DurationStated, <<32, 115, 101, 99, 111, 110, 100, 115>>)
           ELSE EndsWith(DurationStated,
                         <<32, 109, 105, 108, 108, 105, 115, 101, 99, 111, 110, 100, 115>>)

----------------------------------------------------------------------------
(* Properties of evaluate_rules (SpecRules) *)

Evaluated == pc = "evaluated"

\* The value satisfies the operator against the threshold: one of the six
\* operators, the ordering ones between operands of one kind only.
Satisfies(value, op, threshold) ==
    /\ value # None
    /\ CASE op = ">" -> value[1] = threshold[1] /\ Less(threshold, value)
         [] op = ">=" -> value[1] = threshold[1] /\ ~Less(value, threshold)
         [] op = "<" -> value[1] = threshold[1] /\ Less(value, threshold)
         [] op = "<=" -> value[1] = threshold[1] /\ ~Less(threshold, value)
         [] op = "==" -> value = threshold
         [] op = "!=" -> value # threshold
         [] OTHER -> FALSE

\* Event i of evs and rule j of rls are of one type; the rule's field is in
\* the payload of the event; the pair matches.
SameType(evs, rls, i, j) == Get(evs[i], "event_type") = rls[j].event_type
FieldPresent(evs, rls, i, j) == rls[j].field \in DOMAIN PayloadOf(evs[i])
MatchesIn(evs, rls, i, j) ==
    /\ SameType(evs, rls, i, j)
    /\ FieldPresent(evs, rls, i, j)
    /\ Satisfies(PayloadOf(evs[i])[rls[j].field], rls[j].op, rls[j].value)

\* The alerts of a list raised for an event by the rule of an id.
AlertsOf(list, e, id) == {k \in DOMAIN list : list[k].event = e /\ list[k].alert_id = id}

\* The matching pairs of the evaluated batch, events first, then rules.
Matches(i, j) == MatchesIn(events_arg, rules_arg, i, j)
MatchingPairs ==
    LET all == [n \in 1..(Len(events_arg) * Len(rules_arg)) |->
                   <<((n - 1) \div Len(rules_arg)) + 1, ((n - 1) % Len(rules_arg)) + 1>>]
        Test(p) == Matches(p[1], p[2])
    IN  SelectSeq(all, Test)

\* C16: evaluate_rules returns exactly one alert for each pair of an event and
\* a rule of the event's type whose field value satisfies the rule, and none
\* for any other pair; an event matching k rules has k alerts.
C16_OneAlertPerMatchingPair ==
    Evaluated =>
        /\ ~alerts_out.raised
        /\ Len(alerts_out.alerts) = Len(MatchingPairs)
        /\ \A i \in DOMAIN events_arg, j \in DOMAIN rules_arg :
              Cardinality(AlertsOf(alerts_out.alerts, events_arg[i], rules_arg[j].id))
                = Cardinality({p \in Range(MatchingPairs) :
                                  /\ events_arg[p[1]] = events_arg[i]
                                  /\ rules_arg[p[2]].id = rules_arg[j].id})

\* C17: an ordering operator applied to a payload value and a threshold of
\* different kinds is no match: evaluate_rules raises nothing and returns no
\* alert for the pair.
MixedKinds(i, j) ==
    /\ SameType(events_arg, rules_arg, i, j)
    /\ FieldPresent(events_arg, rules_arg, i, j)
    /\ rules_arg[j].op \in {"<", "<=", ">", ">="}
    /\ PayloadOf(events_arg[i])[rules_arg[j].field] # None
    /\ PayloadOf(events_arg[i])[rules_arg[j].field][1] # rules_arg[j].value[1]
C17_MixedKindsDoNotMatch ==
    Evaluated =>
        \A i \in DOMAIN events_arg, j \in DOMAIN rules_arg :
            MixedKinds(i, j) =>
                /\ ~alerts_out.raised
                /\ AlertsOf(alerts_out.alerts, events_arg[i], rules_arg[j].id) = {}

\* C18: a rule whose field the payload of an event of its type does not have
\* does not match the event, whatever its operator: the comparison returns
\* False without raising, no alert is returned for the pair, and a batch of
\* such pairs only returns the empty list.
FieldAbsent(i, j) ==
    SameType(events_arg, rules_arg, i, j) /\ ~FieldPresent(events_arg, rules_arg, i, j)
C18_AbsentFieldDoesNotMatch ==
    Evaluated =>
        /\ \A i \in DOMAIN events_arg, j \in DOMAIN rules_arg :
              FieldAbsent(i, j) =>
                  /\ Compare(Get(PayloadOf(events_arg[i]), rules_arg[j].field),
                             rules_arg[j].op, rules_arg[j].value) = Compared(FALSE)
                  /\ AlertsOf(alerts_out.alerts, events_arg[i], rules_arg[j].id) = {}
        /\ (\A i \in DOMAIN events_arg, j \in DOMAIN rules_arg :
                SameType(events_arg, rules_arg, i, j) => FieldAbsent(i, j))
              => alerts_out = AlertsReturned(<<>>)

C18_Witness ==
    /\ Evaluated
    /\ Len(events_arg) = 1
    /\ {rules_arg[j].op : j \in DOMAIN rules_arg} = {"!=", "=="}
    /\ \A j \in DOMAIN rules_arg : FieldAbsent(1, j)

\* C19: the alerts returned are those of the matching pairs in event-then-rule
\* order, one per pair: the alerts of an earlier event precede those of a
\* later one, the alerts of one event follow the order of the rules, and two
\* rules matching one event give two alerts.
C19_EventThenRuleOrder ==
    (Evaluated /\ ~alerts_out.raised) =>
        /\ Len(alerts_out.alerts) = Len(MatchingPairs)
        /\ \A k \in DOMAIN alerts_out.alerts :
              /\ alerts_out.alerts[k].event = events_arg[MatchingPairs[k][1]]
              /\ alerts_out.alerts[k].alert_id = rules_arg[MatchingPairs[k][2]].id

C19_Witness ==
    /\ Evaluated
    /\ ~alerts_out.raised
    /\ Len(events_arg) = 2
    /\ events_arg[1] # events_arg[2]
    /\ Len(rules_arg) = 2
    /\ rules_arg[1] # rules_arg[2]
    /\ Matches(1, 1) /\ Matches(1, 2) /\ Matches(2, 1) /\ ~Matches(2, 2)
    /\ Len(alerts_out.alerts) = 3

\* What an alert says apart from its timestamp and its explanation, and the
\* outcome of a run of evaluate_rules read that way.
AlertCore(a) ==
    [alert_id |-> a.alert_id, severity |-> a.severity, message |-> a.message,
     event |-> a.event, recommendations |-> a.recommendations]
Cores(result) ==
    [raised |-> result.raised,
     alerts |-> [k \in DOMAIN result.alerts |-> AlertCore(result.alerts[k])]]

\* C21: evaluate_rules is deterministic in its inputs: any other run on the
\* same events and the same rules, whatever the backend answers and whenever
\* it starts, gives the same alerts position by position, timestamps and
\* explanations set aside.
C21_SameInputsSameAlerts ==
    Evaluated =>
        \A outcomes \in [1..(Len(events_arg) * Len(rules_arg)) -> CycleOutcomes] :
            Cores(EvaluateRules(events_arg, rules_arg, use_ai_analysis, outcomes, 0))
                = Cores(alerts_out)

\* The cores of the alerts a run returned for the events after the i-th: the
\* last alerts of the run, as many as there are matching pairs of later events;
\* none when the run raised.
AlertsAfter(result, i) ==
    LET later == Cardinality({k \in DOMAIN MatchingPairs : MatchingPairs[k][1] > i})
        cores == Cores(result).alerts
    IN  IF result.raised \/ Len(cores) < later THEN <<>>
        ELSE SubSeq(cores, Len(cores) - later + 1, Len(cores))

\* C22: the explanation attempts of a batch are independent: had the primary
\* call of any one pair of this run failed or timed out instead, the alerts of
\* the subsequent events would be the same, apart from timestamp and
\* explanation.
C22_FailedCallLeavesLaterEventsAlone ==
    Evaluated =>
        \A outcomes \in [1..(Len(events_arg) * Len(rules_arg)) -> CycleOutcomes] :
            LET run == EvaluateRules(events_arg, rules_arg, use_ai_analysis, outcomes, 0)
            IN  Cores(run) = Cores(alerts_out) =>
                    \A n \in DOMAIN outcomes, failure \in {ConnectionError, Timeout} :
                        LET i == Pairs(events_arg, rules_arg)[n][1]
                            failed == EvaluateRules(events_arg, rules_arg, use_ai_analysis,
                                                    [outcomes EXCEPT ![n] = failure], 0)
                        IN  AlertsAfter(failed, i) = AlertsAfter(run, i)

----------------------------------------------------------------------------
(* Properties of the normalization (SpecNormalize) *)

Normalized == pc = "normalized"

\* What collect_mock fills in for a field a record lacks.
Ambient(k) ==
    CASE k = "@timestamp" -> NowIso(clock)
      [] k = "host" -> HostName
      [] k = "sql_instance" -> SqlInstance

\* C23: collect_mock preserves the timestamp, host and instance a record
\* carries, and fills in the current time or the ambient host or instance only
\* where the record lacks it.
C23_CarriedIdentityPreserved ==
    Normalized =>
        \A i \in DOMAIN sample_arg, k \in {"@timestamp", "host", "sql_instance"} :
            enriched[i][k] = IF k \in DOMAIN sample_arg[i] THEN sample_arg[i][k]
                             ELSE Ambient(k)

\* C24: normalization leaves the records handed to it as they were and returns
\* one event per record in the order of the records; no field of a record is
\* dropped or renamed, and the payload of each event is the payload of its
\* record (for _build_event, the row itself).
C24_InputKeptNothingDropped ==
    pc \in {"normalized", "built"} =>
        /\ sample_after = sample_arg
        /\ Len(enriched) = Len(sample_arg)
        /\ \A i \in DOMAIN sample_arg :
              IF Normalized
              THEN /\ DOMAIN sample_arg[i] \subseteq DOMAIN enriched[i]
                   /\ PayloadOf(enriched[i]) = PayloadOf(sample_arg[i])
                   /\ \A k \in DOMAIN sample_arg[i] \ {"@timestamp"} :
                         enriched[i][k] = sample_arg[i][k]
              ELSE PayloadOf(enriched[i]) = sample_arg[i]

C24_Witness ==
    /\ Normalized
    /\ Len(sample_arg) = 2
    /\ sample_arg[1] # sample_arg[2]
    /\ "session_id" \in DOMAIN sample_arg[1]
    /\ "host" \in DOMAIN sample_arg[1]
    /\ "host" \notin DOMAIN sample_arg[2]
    /\ enriched[2]["host"] = HostName

C24_WitnessRows ==
    /\ pc = "built"
    /\ Len(sample_arg) = 2
    /\ sample_arg[1] # sample_arg[2]
    /\ enriched[1]["event_type"] = TextSlowQueries

----------------------------------------------------------------------------
(* Properties of GET /slow-queries (SpecSlow) *)

\* C26: the slow-queries view bypasses the delta engine: the events returned
\* are every row the data source returned, in order, whatever the metrics
\* index holds, and nothing is counted as new, changed or resolved.
C26_FullCurrentBatch ==
    pc = "served" =>
        /\ slow_response.events = [i \in DOMAIN source_rows |-> [payload |-> source_rows[i]]]
        /\ slow_response.total = Len(source_rows)
        /\ slow_response.new_count = 0
        /\ slow_response.changed_count = 0
        /\ slow_response.resolved_count = 0

----------------------------------------------------------------------------
(* Properties of the statements of cmd_collect (SpecCycle) *)

\* The documents of the bulk requests sent to an index, in the order sent.
RECURSIVE Sent(_, _)
Sent(log, index) ==
    IF log = <<>> THEN <<>>
    ELSE IF log[1].index = index THEN log[1].docs \o Sent(Tail(log), index)
    ELSE Sent(Tail(log), index)

\* C27: in a cycle the events are handed to the store before the alerts: a
\* bulk request for alerts comes after the bulk request for the events of the
\* same cycle; and whatever fails later, the events indexed stay in the index.
C27_EventsStoredBeforeAlerts ==
    /\ \A k \in DOMAIN store_log :
          store_log[k].index = "alerts" =>
              \E j \in 1..(k - 1) :
                  /\ store_log[j].index = "metrics"
                  /\ store_log[j].cycle = store_log[k].cycle
    /\ metrics = Sent(store_log, "metrics")
    /\ alerts_index = Sent(store_log, "alerts")
    /\ (pc \in {"evaluate_rules", "index_alerts", "done"} /\ events_arg # <<>>) =>
          /\ Len(metrics) >= Len(events_arg)
          /\ SubSeq(metrics, Len(metrics) - Len(events_arg) + 1, Len(metrics)) = events_arg
    /\ (pc = "failed" /\ events_arg # <<>> /\ (alerts_out.raised \/ alerts_out.alerts # <<>>)) =>
          /\ Len(metrics) >= Len(events_arg)
          /\ SubSeq(metrics, Len(metrics) - Len(events_arg) + 1, Len(metrics)) = events_arg

\* An alert batch was indexed in the second cycle.
C27_Witness ==
    /\ pc = "done"
    /\ cycles = 1
    /\ store_log # <<>>
    /\ store_log[Len(store_log)].index = "alerts"
    /\ store_log[Len(store_log)].cycle = 2

\* Rule evaluation failed after the events were indexed.
C27_WitnessRulesFailed ==
    /\ pc = "failed"
    /\ alerts_out.raised
    /\ events_arg # <<>>
    /\ store_log[Len(store_log)] = BulkRequest("metrics", events_arg)

\* Alert indexing failed after the events were indexed.
C27_WitnessAlertsNotStored ==
    /\ pc = "failed"
    /\ alerts_out.alerts # <<>>
    /\ alerts_index = <<>>
    /\ metrics = events_arg

----------------------------------------------------------------------------
(* Properties of collect_from_sql (SpecCollect) *)

\* The payloads of the events of a type, in the order of the events.
PayloadsOfType(events, type) ==
    LET Test(e) == e["event_type"] = type
        tagged == SelectSeq(events, Test)
    IN  [i \in DOMAIN tagged |-> PayloadOf(tagged[i])]

\* C28: a failure of one query, of the deadlock source or of the step that
\* creates the database does not abort a live collection: the batch returned
\* holds every row of every query that succeeded, tagged with its event type,
\* in the order of the rows, and nothing else; the collection fails only
\* without a connection string or when the main connection cannot be opened.
C28_QueryFailureIsolated ==
    pc = "collected" =>
        IF sql_source.connection_string /\ sql_source.main
        THEN /\ ~collect_out.raised
             /\ \A n \in DOMAIN sql_source.queries :
                   PayloadsOfType(collect_out.events, SqlQueryTypes[n])
                     = IF sql_source.queries[n].failed THEN <<>>
                       ELSE sql_source.queries[n].rows
             /\ PayloadsOfType(collect_out.events, TextDeadlocks)
                   = IF sql_source.deadlocks.failed THEN <<>> ELSE sql_source.deadlocks.rows
             /\ \A i \in DOMAIN collect_out.events :
                   collect_out.events[i]["event_type"]
                       \in Range(SqlQueryTypes) \cup {TextDeadlocks}
        ELSE collect_out.raised

C28_Witness ==
    /\ pc = "collected"
    /\ ~collect_out.raised
    /\ ~sql_source.master
    /\ Len(sql_source.queries[1].rows) = 2
    /\ sql_source.queries[2].failed
    /\ ~sql_source.queries[3].failed
    /\ sql_source.queries[4].failed
    /\ sql_source.deadlocks.failed
    /\ Len(collect_out.events) >= 3

C28_WitnessNoConnection ==
    /\ pc = "collected"
    /\ collect_out.raised
    /\ sql_source.connection_string
    /\ ~sql_source.main

----------------------------------------------------------------------------
(* Properties of kill_session (SpecKill) *)

KillIssued == \E k \in DOMAIN issued : issued[k].statement = "kill"
Target == Get(request_arg, "session_id")

\* The sessions listed when the request arrived: a killed session has left
\* the list.
ListedBefore ==
    IF kill_out.status = "success" THEN sessions \cup {SpidOf(Target)} ELSE sessions

\* C29: kill_session issues KILL only after the SELECT that found the target
\* in the session list and the SELECT of its own session id, the target being
\* another session; without a session_id, for a session not listed and for
\* its own session it issues no KILL and returns an error status; and it
\* raises nothing, every failure being an error status.
C29_KillOnlyAfterChecks ==
    pc = "served" =>
        /\ ~kill_out.raised
        /\ kill_out.status \in {"success", "error"}
        /\ kill_out.status = "success" => KillIssued
        /\ KillIssued =>
              /\ [k \in DOMAIN issued |-> issued[k].statement]
                    = <<"select_session", "select_spid", "kill">>
              /\ Converts(Target)
              /\ SpidOf(Target) \in ListedBefore
              /\ SpidOf(Target) # own_spid
              /\ issued[3].argument = Target
        /\ (\/ Falsy(Target)
            \/ ~Converts(Target)
            \/ SpidOf(Target) \notin ListedBefore
            \/ SpidOf(Target) = own_spid)
              => ~KillIssued /\ kill_out.status = "error"
        /\ (~server.connect \/ ~server.select_session \/ ~server.select_spid \/ ~server.kill)
              => kill_out.status = "error" \/ Falsy(Target)

\* Another session is killed on the id given as a text.
C29_Witness ==
    /\ pc = "served"
    /\ kill_out.status = "success"
    /\ IsStr(Target)
    /\ own_spid = 52
    /\ sessions = {52}

\* The dashboard's own session is the target.
C29_WitnessOwnSession ==
    /\ pc = "served"
    /\ Converts(Target)
    /\ SpidOf(Target) = own_spid
    /\ server.connect /\ server.select_session /\ server.select_spid /\ server.kill
    /\ kill_out.status = "error"
    /\ Len(issued) = 2

----------------------------------------------------------------------------
(* Properties of the alerts of a cycle (Spec) *)

\* C20: a bad event or rule of a batch costs only its own pairs: the alert of
\* every matching pair of the last cycle is returned by evaluate_rules and
\* stored in the alerts index, and the events of the cycle are stored.
C20_FailureIsolatedPerItem ==
    last_cycle.mode # "none" =>
        /\ Range(last_cycle.events) \subseteq Range(metrics)
        /\ \A i \in DOMAIN last_cycle.events, j \in DOMAIN last_cycle.rules :
              MatchesIn(last_cycle.events, last_cycle.rules, i, j) =>
                  /\ AlertsOf(last_cycle.alerts.alerts, last_cycle.events[i],
                              last_cycle.rules[j].id) # {}
                  /\ AlertsOf(alerts_index, last_cycle.events[i],
                              last_cycle.rules[j].id) # {}

====
